---- MODULE Spec2Model ----
(***************************************************************************)
(* StructTrace-Engine: the traced red-black tree, the traced AVL tree, the *)
(* traced Dijkstra search and the benchmark harness, as state machines.    *)
(* Trees are heaps of nodes addressed by the id they were created with;    *)
(* every operation on a structure is one action that runs the whole call,  *)
(* step trace included.  The Description of a step is kept as the name of  *)
(* the case that wrote it, with the values its text is formatted from      *)
(* where a property reads them.  The harness is a set of goroutines, one   *)
(* action per step a goroutine takes between two points where another can  *)
(* run.                                                                    *)
(***************************************************************************)
EXTENDS Integers, Sequences, FiniteSets, TLC

VARIABLES rbTree, avlTree, graph, req, result, live,
          benchmarkRunner, runnerMutex, runners, stopChans, conns

\* the state of the traced structures and of the request they answered last
opVars == <<rbTree, avlTree, graph, req, result, live>>

\* the state of the benchmark harness and of its streaming handler
benchVars == <<benchmarkRunner, runnerMutex, runners, stopChans, conns>>

vars == <<rbTree, avlTree, graph, req, result, live,
          benchmarkRunner, runnerMutex, runners, stopChans, conns>>

-----------------------------------------------------------------------------
(* Bounds of the model *)

\* nodes created in the red-black tree when it is exercised alone
MaxRBNodes == 7

\* nodes created in the AVL tree when it is exercised alone
MaxAVLNodes == 5

\* nodes created in both trees together when requests go to both
MaxTreeNodes == 3

\* the keys of the requests
Keys == {10, 20, 30}

\* the keys of the requests to the red-black tree alone: Insert stores equal
\* keys, so two keys give every case of insertFixup and deleteFixup
RBKeys == {10, 20}

\* the keys of the requests to the AVL tree alone
AVLKeys == {10, 20, 30, 40}

\* AddEdge calls that build a graph
MaxEdges == 2

\* the node ids of the graphs
NodeIds == {"A", "B", "C"}

\* math.MaxInt32, the distance of a node not reached yet
MaxInt32 == 2147483647

\* the edge weights of the graphs
Weights == {0, 1, 2, MaxInt32}

\* the capacity of the channel between the callback and the stream loop:
\* 100 in the handler, scaled down with the data sizes below
ResultChanCap == 2

\* the connections that ask for a benchmark, one request each
Conns == {1, 2}

\* the addresses of the Runners the process creates
RunnerIds == {0, 1}

\* the structure kinds of the benchmark requests
BenchKinds == {"hashmap", "rbtree"}

\* the data sizes of the benchmark requests
BenchSizes == {1, 3}

\* the elements of the datasets: one value where the keys are not looked at,
\* two for the workloads that search
OneValue == {0}
RandValues == {0, 1}

\* the size of the datasets of the search workloads
SearchSize == 3

-----------------------------------------------------------------------------
(* Values of the Go types *)

\* a Go nil pointer (an omitted *int of a snapshot as well)
NULL == -2

\* the ID of the red-black sentinel; the sentinel's address in the heap
NILID == -1

Red == "red"

Black == "black"

StepInsert == "insert"

StepDelete == "delete"

StepRotateLeft == "rotate_left"

StepRotateRight == "rotate_right"

StepColorChange == "color_change"

StepCompare == "compare"

StepVisit == "visit"

StepFound == "found"

StepNotFound == "not_found"

StepUpdateDist == "update_distance"

StepSelectNode == "select_node"

StepRebalance == "rebalance"

StepComplete == "complete"

\* width of the drawing area the snapshot lays the tree out in
CanvasWidth == 800

\* vertical distance of two levels, and the y of the root
LevelHeight == 80

TopMargin == 50

\* x coordinates are float64 in the code; here they are fixed-point numbers
\* with 16 binary digits after the point, exact down to depth 21
FixedPoint == 2 ^ 16

Max(a, b) == IF a > b THEN a ELSE b

\* Let([x \in {e} |-> body]) is body with the local variable x set to e,
\* e computed once: the := of a Go statement
Let(f) == f[CHOOSE x \in DOMAIN f : TRUE]

-----------------------------------------------------------------------------
(* Red-black tree (backend/datastructures/rbtree.go) *)

NewRedBlackTree ==
    [Root |-> NILID, NIL |-> NILID, nextID |-> 0, steps |-> <<>>,
     node |-> (NILID :> [ID |-> NILID, Value |-> 0, Color |-> Black,
                         Left |-> NULL, Right |-> NULL, Parent |-> NULL])]

\* n.f = v
RB_set(t, n, f, v) == [t EXCEPT !.node[n][f] = v]

RB_clearSteps(t) == [t EXCEPT !.steps = <<>>]

RECURSIVE RB_inorderSnapshot(_, _, _, _, _)
RB_inorderSnapshot(t, n, depth, xMin, xMax) ==
    IF n = t.NIL \/ n = NULL THEN <<>>
    ELSE     Let([nd \in {t.node[n]} |->
             Let([x \in {(xMin + xMax) \div 2} |->
             LET Ref(p) == IF p # t.NIL /\ p # NULL THEN t.node[p].ID ELSE NULL IN
            <<[ID |-> nd.ID, Value |-> nd.Value, Color |-> nd.Color,
               LeftID |-> Ref(nd.Left), RightID |-> Ref(nd.Right),
               ParentID |-> Ref(nd.Parent), Height |-> 0,
               X |-> x, Y |-> depth * LevelHeight + TopMargin]>>
            \o RB_inorderSnapshot(t, nd.Left, depth + 1, xMin, x)
            \o RB_inorderSnapshot(t, nd.Right, depth + 1, x, xMax)])])

RB_getTreeSnapshot(t) ==
    RB_inorderSnapshot(t, t.Root, 0, 0, CanvasWidth * FixedPoint)

\* desc names the message of the step; nodeID is NULL for a nil *int
RB_addStep(t, stepType, desc, nodeID, highlight) ==
    [t EXCEPT !.steps = Append(@, [Type |-> stepType, Description |-> desc,
                                   NodeID |-> nodeID,
                                   TreeState |-> RB_getTreeSnapshot(t),
                                   Highlight |-> highlight])]

\* leftRotate without "if x.Parent == t.NIL { t.Root = y }"
RB_leftRotate_staleRoot(t, x) ==
        Let([y \in {t.node[x].Right} |->
        Let([t1 \in {RB_set(t, x, "Right", t.node[y].Left)} |->
        Let([t2 \in {IF t1.node[y].Left # t1.NIL
              THEN RB_set(t1, t1.node[y].Left, "Parent", x) ELSE t1} |->
        Let([t3 \in {RB_set(t2, y, "Parent", t2.node[x].Parent)} |->
        Let([xp \in {t3.node[x].Parent} |->
        Let([t4 \in {IF xp = t3.NIL THEN t3
              ELSE IF x = t3.node[xp].Left THEN RB_set(t3, xp, "Left", y)
              ELSE RB_set(t3, xp, "Right", y)} |->
        Let([t5 \in {RB_set(t4, y, "Left", x)} |->
        Let([t6 \in {RB_set(t5, x, "Parent", y)} |->
       RB_addStep(t6, StepRotateLeft, "rotate left", t6.node[x].ID,
                  <<t6.node[x].ID, t6.node[y].ID>>)])])])])])])])])

\* leftRotate without "if y.Left != t.NIL { y.Left.Parent = x }"
RB_leftRotate_innerParent(t, x) ==
        Let([y \in {t.node[x].Right} |->
        Let([t2 \in {RB_set(t, x, "Right", t.node[y].Left)} |->
        Let([t3 \in {RB_set(t2, y, "Parent", t2.node[x].Parent)} |->
        Let([xp \in {t3.node[x].Parent} |->
        Let([t4 \in {IF xp = t3.NIL THEN [t3 EXCEPT !.Root = y]
              ELSE IF x = t3.node[xp].Left THEN RB_set(t3, xp, "Left", y)
              ELSE RB_set(t3, xp, "Right", y)} |->
        Let([t5 \in {RB_set(t4, y, "Left", x)} |->
        Let([t6 \in {RB_set(t5, x, "Parent", y)} |->
       RB_addStep(t6, StepRotateLeft, "rotate left", t6.node[x].ID,
                  <<t6.node[x].ID, t6.node[y].ID>>)])])])])])])])

RB_leftRotate(t, x) ==
        Let([y \in {t.node[x].Right} |->
        Let([t1 \in {RB_set(t, x, "Right", t.node[y].Left)} |->
        Let([t2 \in {IF t1.node[y].Left # t1.NIL
              THEN RB_set(t1, t1.node[y].Left, "Parent", x) ELSE t1} |->
        Let([t3 \in {RB_set(t2, y, "Parent", t2.node[x].Parent)} |->
        Let([xp \in {t3.node[x].Parent} |->
        Let([t4 \in {IF xp = t3.NIL THEN [t3 EXCEPT !.Root = y]
              ELSE IF x = t3.node[xp].Left THEN RB_set(t3, xp, "Left", y)
              ELSE RB_set(t3, xp, "Right", y)} |->
        Let([t5 \in {RB_set(t4, y, "Left", x)} |->
        Let([t6 \in {RB_set(t5, x, "Parent", y)} |->
       RB_addStep(t6, StepRotateLeft, "rotate left", t6.node[x].ID,
                  <<t6.node[x].ID, t6.node[y].ID>>)])])])])])])])])

\* rightRotate without its addStep
RB_rightRotate_noStep(t, y) ==
        Let([x \in {t.node[y].Left} |->
        Let([t1 \in {RB_set(t, y, "Left", t.node[x].Right)} |->
        Let([t2 \in {IF t1.node[x].Right # t1.NIL
              THEN RB_set(t1, t1.node[x].Right, "Parent", y) ELSE t1} |->
        Let([t3 \in {RB_set(t2, x, "Parent", t2.node[y].Parent)} |->
        Let([yp \in {t3.node[y].Parent} |->
        Let([t4 \in {IF yp = t3.NIL THEN [t3 EXCEPT !.Root = x]
              ELSE IF y = t3.node[yp].Left THEN RB_set(t3, yp, "Left", x)
              ELSE RB_set(t3, yp, "Right", x)} |->
        Let([t5 \in {RB_set(t4, x, "Right", y)} |->
       RB_set(t5, y, "Parent", x)])])])])])])])

RB_rightRotate(t, y) ==
        Let([x \in {t.node[y].Left} |->
        Let([t1 \in {RB_set(t, y, "Left", t.node[x].Right)} |->
        Let([t2 \in {IF t1.node[x].Right # t1.NIL
              THEN RB_set(t1, t1.node[x].Right, "Parent", y) ELSE t1} |->
        Let([t3 \in {RB_set(t2, x, "Parent", t2.node[y].Parent)} |->
        Let([yp \in {t3.node[y].Parent} |->
        Let([t4 \in {IF yp = t3.NIL THEN [t3 EXCEPT !.Root = x]
              ELSE IF y = t3.node[yp].Left THEN RB_set(t3, yp, "Left", x)
              ELSE RB_set(t3, yp, "Right", x)} |->
        Let([t5 \in {RB_set(t4, x, "Right", y)} |->
        Let([t6 \in {RB_set(t5, y, "Parent", x)} |->
       RB_addStep(t6, StepRotateRight, "rotate right", t6.node[y].ID,
                  <<t6.node[x].ID, t6.node[y].ID>>)])])])])])])])])

\* the loop of insertFixup; z is the node under repair
RECURSIVE RB_insertFixupLoop(_, _)
RB_insertFixupLoop(t, z) ==
    LET P(tt, n) == tt.node[n].Parent
        PP(tt, n) == tt.node[tt.node[n].Parent].Parent
    IN
    IF ~(P(t, z) # t.NIL /\ t.node[P(t, z)].Color = Red) THEN t
    ELSE IF P(t, z) = t.node[PP(t, z)].Left THEN
            Let([y \in {t.node[PP(t, z)].Right} |->
        IF y # t.NIL /\ t.node[y].Color = Red THEN
                Let([t1 \in {RB_addStep(t, StepRebalance, "case 1: uncle red", z,
                                 <<z, P(t, z), y>>)} |->
                Let([t2 \in {RB_set(t1, P(t1, z), "Color", Black)} |->
                Let([t3 \in {RB_set(t2, y, "Color", Black)} |->
                Let([t4 \in {RB_set(t3, PP(t3, z), "Color", Red)} |->
                Let([t5 \in {RB_addStep(t4, StepColorChange, "case 1: recolor",
                                 PP(t4, z), <<>>)} |->
               RB_insertFixupLoop(t5, PP(t5, z))])])])])])
        ELSE
                Let([inner \in {z = t.node[P(t, z)].Right} |->
                Let([z1 \in {IF inner THEN P(t, z) ELSE z} |->
                Let([t1 \in {IF inner
                      THEN RB_leftRotate(
                               RB_addStep(t, StepRebalance,
                                          "case 2: uncle black, right child",
                                          z1, <<>>), z1)
                      ELSE t} |->
                Let([t2 \in {RB_addStep(t1, StepRebalance,
                                 "case 3: uncle black, left child", z1, <<>>)} |->
                Let([t3 \in {RB_set(t2, P(t2, z1), "Color", Black)} |->
                Let([t4 \in {RB_set(t3, PP(t3, z1), "Color", Red)} |->
                Let([t5 \in {RB_addStep(t4, StepColorChange, "case 3: recolor",
                                 P(t4, z1), <<>>)} |->
                Let([t6 \in {RB_rightRotate(t5, PP(t5, z1))} |->
               RB_insertFixupLoop(t6, z1)])])])])])])])])])
    ELSE
            Let([y \in {t.node[PP(t, z)].Left} |->
        IF y # t.NIL /\ t.node[y].Color = Red THEN
                Let([t1 \in {RB_addStep(t, StepRebalance, "case 1 (mirror): uncle red",
                                 z, <<z, P(t, z), y>>)} |->
                Let([t2 \in {RB_set(t1, P(t1, z), "Color", Black)} |->
                Let([t3 \in {RB_set(t2, y, "Color", Black)} |->
                Let([t4 \in {RB_set(t3, PP(t3, z), "Color", Red)} |->
                Let([t5 \in {RB_addStep(t4, StepColorChange, "case 1 (mirror): recolor",
                                 PP(t4, z), <<>>)} |->
               RB_insertFixupLoop(t5, PP(t5, z))])])])])])
        ELSE
                Let([inner \in {z = t.node[P(t, z)].Left} |->
                Let([z1 \in {IF inner THEN P(t, z) ELSE z} |->
                Let([t1 \in {IF inner
                      THEN RB_rightRotate(
                               RB_addStep(t, StepRebalance,
                                          "case 2 (mirror): uncle black, left child",
                                          z1, <<>>), z1)
                      ELSE t} |->
                Let([t2 \in {RB_addStep(t1, StepRebalance,
                                 "case 3 (mirror): uncle black, right child",
                                 z1, <<>>)} |->
                Let([t3 \in {RB_set(t2, P(t2, z1), "Color", Black)} |->
                Let([t4 \in {RB_set(t3, PP(t3, z1), "Color", Red)} |->
                Let([t5 \in {RB_addStep(t4, StepColorChange, "case 3 (mirror): recolor",
                                 P(t4, z1), <<>>)} |->
                Let([t6 \in {RB_leftRotate(t5, PP(t5, z1))} |->
               RB_insertFixupLoop(t6, z1)])])])])])])])])])

\* insertFixup without the closing "t.Root.Color = Black"
RB_insertFixup_rootLeftRed(t, z) == RB_insertFixupLoop(t, z)

RB_insertFixup(t, z) ==
        Let([t1 \in {RB_insertFixupLoop(t, z)} |->
       IF t1.node[t1.Root].Color = Red
       THEN RB_addStep(RB_set(t1, t1.Root, "Color", Black), StepColorChange,
                       "root becomes black", t1.node[t1.Root].ID, <<>>)
       ELSE t1])

\* the descent of Insert: [t, y], y the last node visited
RECURSIVE RB_insertDescent(_, _, _, _)
RB_insertDescent(t, z, x, y) ==
    IF x = t.NIL THEN [t |-> t, y |-> y]
    ELSE     Let([t1 \in {RB_addStep(t, StepCompare, "compare", t.node[x].ID,
                              <<t.node[x].ID>>)} |->
            IF t1.node[z].Value < t1.node[x].Value
            THEN RB_insertDescent(t1, z, t1.node[x].Left, x)
            ELSE RB_insertDescent(t1, z, t1.node[x].Right, x)])

\* the test that links z under y, with ">" for "<"
RB_linksLeft_greater(t, z, y) == t.node[z].Value > t.node[y].Value

\* "z.Value < y.Value" of Insert: z becomes the left child of y
RB_linksLeft(t, z, y) == t.node[z].Value < t.node[y].Value

\* Insert(value): [t, res], the tree after the call and the OperationResult
RB_Insert(t0, value) ==
        Let([tc \in {RB_clearSteps(t0)} |->
        Let([z \in {tc.nextID} |->
        Let([tn \in {[tc EXCEPT !.node = [n \in DOMAIN @ \cup {z} |->
                                     IF n = z
                                     THEN [ID |-> z, Value |-> value, Color |-> Red,
                                           Left |-> tc.NIL, Right |-> tc.NIL,
                                           Parent |-> tc.NIL]
                                     ELSE @[n]],
                         !.nextID = @ + 1]} |->
        Let([t1 \in {RB_addStep(tn, StepInsert, "create new node (red)", z, <<>>)} |->
        Let([d \in {RB_insertDescent(t1, z, t1.Root, t1.NIL)} |->
        Let([y \in {d.y} |->
        Let([t2 \in {RB_set(d.t, z, "Parent", y)} |->
        Let([t3 \in {IF y = t2.NIL
              THEN RB_addStep([t2 EXCEPT !.Root = z], StepInsert,
                              "node becomes root", z, <<>>)
              ELSE IF RB_linksLeft(t2, z, y)
              THEN RB_addStep(RB_set(t2, y, "Left", z), StepInsert,
                              "node becomes left child", z, <<t2.node[y].ID, z>>)
              ELSE RB_addStep(RB_set(t2, y, "Right", z), StepInsert,
                              "node becomes right child", z, <<t2.node[y].ID, z>>)} |->
        Let([t4 \in {RB_insertFixup(t3, z)} |->
        Let([t5 \in {RB_addStep(t4, StepComplete, "insert complete", NULL, <<>>)} |->
       [t |-> t5,
        res |-> [Success |-> TRUE, Message |-> "", Steps |-> t5.steps,
                 FinalTree |-> RB_getTreeSnapshot(t5)]]])])])])])])])])])])

\* the loop of Search: [t, found]
RECURSIVE RB_searchLoop(_, _, _)
RB_searchLoop(t, x, value) ==
    IF x = t.NIL THEN [t |-> t, found |-> FALSE]
    ELSE     Let([t1 \in {RB_addStep(t, StepCompare, "compare", t.node[x].ID,
                              <<t.node[x].ID>>)} |->
            IF value = t1.node[x].Value
            THEN [t |-> RB_addStep(t1, StepFound, "found node", t1.node[x].ID,
                                   <<t1.node[x].ID>>),
                  found |-> TRUE]
            ELSE IF value < t1.node[x].Value
            THEN RB_searchLoop(t1, t1.node[x].Left, value)
            ELSE RB_searchLoop(t1, t1.node[x].Right, value)])

RB_Search(t0, value) ==
        Let([s \in {RB_searchLoop(RB_clearSteps(t0), t0.Root, value)} |->
        Let([t1 \in {IF s.found THEN s.t
              ELSE RB_addStep(s.t, StepNotFound, "value not in tree", NULL, <<>>)} |->
       [t |-> t1,
        res |-> [Success |-> s.found,
                 Message |-> IF s.found THEN "found value" ELSE "value does not exist",
                 Steps |-> t1.steps, FinalTree |-> RB_getTreeSnapshot(t1)]]])])

RB_transplant(t, u, v) ==
        Let([up \in {t.node[u].Parent} |->
        Let([t1 \in {IF up = t.NIL THEN [t EXCEPT !.Root = v]
              ELSE IF u = t.node[up].Left THEN RB_set(t, up, "Left", v)
              ELSE RB_set(t, up, "Right", v)} |->
       RB_set(t1, v, "Parent", t1.node[u].Parent)])])

RECURSIVE RB_minimum(_, _)
RB_minimum(t, n) ==
    IF t.node[n].Left # t.NIL THEN RB_minimum(t, t.node[n].Left) ELSE n

RECURSIVE RB_searchFrom(_, _, _)
RB_searchFrom(t, x, value) ==
    IF x = t.NIL THEN t.NIL
    ELSE IF value = t.node[x].Value THEN x
    ELSE IF value < t.node[x].Value THEN RB_searchFrom(t, t.node[x].Left, value)
    ELSE RB_searchFrom(t, t.node[x].Right, value)

RB_searchNode(t, value) == RB_searchFrom(t, t.Root, value)

\* the loop of deleteFixup: [t, x], x the node the loop ends on
RECURSIVE RB_deleteFixupLoop(_, _)
RB_deleteFixupLoop(t, x) ==
    LET P(tt, n) == tt.node[n].Parent
        C(tt, n) == tt.node[n].Color
        L(tt, n) == tt.node[n].Left
        R(tt, n) == tt.node[n].Right
    IN
    IF ~(x # t.Root /\ C(t, x) = Black) THEN [t |-> t, x |-> x]
    ELSE IF x = L(t, P(t, x)) THEN
            Let([w0 \in {R(t, P(t, x))} |->
            Let([c1 \in {C(t, w0) = Red} |->
            Let([ta \in {IF c1
                  THEN     Let([a1 \in {RB_addStep(t, StepRebalance, "case 1: sibling red",
                                            t.node[w0].ID,
                                            <<t.node[x].ID, t.node[w0].ID>>)} |->
                           Let([a2 \in {RB_set(a1, w0, "Color", Black)} |->
                           Let([a3 \in {RB_set(a2, P(a2, x), "Color", Red)} |->
                           Let([a4 \in {RB_addStep(a3, StepColorChange, "case 1: recolor",
                                            a3.node[P(a3, x)].ID, <<>>)} |->
                          RB_leftRotate(a4, P(a4, x))])])])])
                  ELSE t} |->
            Let([w1 \in {IF c1 THEN R(ta, P(ta, x)) ELSE w0} |->

        IF C(ta, L(ta, w1)) = Black /\ C(ta, R(ta, w1)) = Black THEN
                Let([b1 \in {RB_addStep(ta, StepRebalance,
                                 "case 2: sibling black, both children black",
                                 ta.node[w1].ID, <<ta.node[w1].ID>>)} |->
                Let([b2 \in {RB_set(b1, w1, "Color", Red)} |->
                Let([b3 \in {RB_addStep(b2, StepColorChange, "case 2: recolor",
                                 b2.node[w1].ID, <<>>)} |->
               RB_deleteFixupLoop(b3, P(b3, x))])])])
        ELSE
                Let([c3 \in {C(ta, R(ta, w1)) = Black} |->
                Let([tb \in {IF c3
                      THEN     Let([b1 \in {RB_addStep(ta, StepRebalance,
                                                "case 3: sibling black, left red, right black",
                                                ta.node[w1].ID, <<>>)} |->
                               Let([b2 \in {RB_set(b1, L(b1, w1), "Color", Black)} |->
                               Let([b3 \in {RB_set(b2, w1, "Color", Red)} |->
                               Let([b4 \in {RB_addStep(b3, StepColorChange, "case 3: recolor",
                                                b3.node[w1].ID, <<>>)} |->
                              RB_rightRotate(b4, w1)])])])])
                      ELSE ta} |->
                Let([w2 \in {IF c3 THEN R(tb, P(tb, x)) ELSE w1} |->
                Let([d1 \in {RB_addStep(tb, StepRebalance, "case 4: sibling black, right red",
                                 tb.node[w2].ID, <<>>)} |->
                Let([d2 \in {RB_set(d1, w2, "Color", C(d1, P(d1, x)))} |->
                Let([d3 \in {RB_set(d2, P(d2, x), "Color", Black)} |->
                Let([d4 \in {RB_set(d3, R(d3, w2), "Color", Black)} |->
                Let([d5 \in {RB_addStep(d4, StepColorChange, "case 4: recolor",
                                 d4.node[w2].ID, <<>>)} |->
                Let([d6 \in {RB_leftRotate(d5, P(d5, x))} |->
               RB_deleteFixupLoop(d6, d6.Root)])])])])])])])])])])])])])
    ELSE
            Let([w0 \in {L(t, P(t, x))} |->
            Let([c1 \in {C(t, w0) = Red} |->
            Let([ta \in {IF c1
                  THEN     Let([a1 \in {RB_addStep(t, StepRebalance,
                                            "case 1 (mirror): sibling red",
                                            t.node[w0].ID,
                                            <<t.node[x].ID, t.node[w0].ID>>)} |->
                           Let([a2 \in {RB_set(a1, w0, "Color", Black)} |->
                           Let([a3 \in {RB_set(a2, P(a2, x), "Color", Red)} |->
                           Let([a4 \in {RB_addStep(a3, StepColorChange,
                                            "case 1 (mirror): recolor",
                                            a3.node[P(a3, x)].ID, <<>>)} |->
                          RB_rightRotate(a4, P(a4, x))])])])])
                  ELSE t} |->
            Let([w1 \in {IF c1 THEN L(ta, P(ta, x)) ELSE w0} |->

        IF C(ta, R(ta, w1)) = Black /\ C(ta, L(ta, w1)) = Black THEN
                Let([b1 \in {RB_addStep(ta, StepRebalance,
                                 "case 2 (mirror): sibling black, both children black",
                                 ta.node[w1].ID, <<ta.node[w1].ID>>)} |->
                Let([b2 \in {RB_set(b1, w1, "Color", Red)} |->
                Let([b3 \in {RB_addStep(b2, StepColorChange, "case 2 (mirror): recolor",
                                 b2.node[w1].ID, <<>>)} |->
               RB_deleteFixupLoop(b3, P(b3, x))])])])
        ELSE
                Let([c3 \in {C(ta, L(ta, w1)) = Black} |->
                Let([tb \in {IF c3
                      THEN     Let([b1 \in {RB_addStep(ta, StepRebalance,
                                                "case 3 (mirror): sibling black, right red, left black",
                                                ta.node[w1].ID, <<>>)} |->
                               Let([b2 \in {RB_set(b1, R(b1, w1), "Color", Black)} |->
                               Let([b3 \in {RB_set(b2, w1, "Color", Red)} |->
                               Let([b4 \in {RB_addStep(b3, StepColorChange,
                                                "case 3 (mirror): recolor",
                                                b3.node[w1].ID, <<>>)} |->
                              RB_leftRotate(b4, w1)])])])])
                      ELSE ta} |->
                Let([w2 \in {IF c3 THEN L(tb, P(tb, x)) ELSE w1} |->
                Let([d1 \in {RB_addStep(tb, StepRebalance,
                                 "case 4 (mirror): sibling black, left red",
                                 tb.node[w2].ID, <<>>)} |->
                Let([d2 \in {RB_set(d1, w2, "Color", C(d1, P(d1, x)))} |->
                Let([d3 \in {RB_set(d2, P(d2, x), "Color", Black)} |->
                Let([d4 \in {RB_set(d3, L(d3, w2), "Color", Black)} |->
                Let([d5 \in {RB_addStep(d4, StepColorChange, "case 4 (mirror): recolor",
                                 d4.node[w2].ID, <<>>)} |->
                Let([d6 \in {RB_rightRotate(d5, P(d5, x))} |->
               RB_deleteFixupLoop(d6, d6.Root)])])])])])])])])])])])])])

\* deleteFixup without the closing "x.Color = Black"
RB_deleteFixup_xLeftRed(t, x0) == RB_deleteFixupLoop(t, x0).t

RB_deleteFixup(t, x0) ==
        Let([f \in {RB_deleteFixupLoop(t, x0)} |->
       IF f.t.node[f.x].Color = Red
       THEN RB_addStep(RB_set(f.t, f.x, "Color", Black), StepColorChange,
                       "current node becomes black", f.t.node[f.x].ID, <<>>)
       ELSE f.t])

\* the part of Delete that unlinks z: [t, x, yOriginalColor]
RB_unlink(t, z) ==
        Let([nz \in {t.node[z]} |->
    IF nz.Left = t.NIL THEN
        [t |-> RB_transplant(RB_addStep(t, StepDelete, "no left child", nz.ID, <<>>),
                             z, nz.Right),
         x |-> nz.Right, yOriginalColor |-> nz.Color]
    ELSE IF nz.Right = t.NIL THEN
        [t |-> RB_transplant(RB_addStep(t, StepDelete, "no right child", nz.ID, <<>>),
                             z, nz.Left),
         x |-> nz.Left, yOriginalColor |-> nz.Color]
    ELSE
            Let([y \in {RB_minimum(t, nz.Right)} |->
            Let([x \in {t.node[y].Right} |->
            Let([t1 \in {RB_addStep(t, StepDelete, "two children: successor found",
                             t.node[y].ID, <<nz.ID, t.node[y].ID>>)} |->
            Let([t2 \in {IF t1.node[y].Parent = z
                  THEN RB_set(t1, x, "Parent", y)
                  ELSE     Let([u1 \in {RB_transplant(t1, y, t1.node[y].Right)} |->
                           Let([u2 \in {RB_set(u1, y, "Right", u1.node[z].Right)} |->
                          RB_set(u2, u2.node[y].Right, "Parent", y)])])} |->
            Let([t3 \in {RB_transplant(t2, z, y)} |->
            Let([t4 \in {RB_set(t3, y, "Left", t3.node[z].Left)} |->
            Let([t5 \in {RB_set(t4, t4.node[y].Left, "Parent", y)} |->
            Let([t6 \in {RB_set(t5, y, "Color", t5.node[z].Color)} |->
           [t |-> RB_addStep(t6, StepDelete, "replaced by successor",
                             t6.node[y].ID, <<>>),
            x |-> x, yOriginalColor |-> t.node[y].Color]])])])])])])])])])

\* Delete(value): [t, res].  The unlinked node is garbage when the call returns.
RB_Delete(t0, value) ==
        Let([tc \in {RB_clearSteps(t0)} |->
        Let([z \in {RB_searchNode(tc, value)} |->

    IF z = tc.NIL THEN
            Let([t1 \in {RB_addStep(tc, StepNotFound, "value not in tree, cannot delete",
                             NULL, <<>>)} |->
           [t |-> t1,
            res |-> [Success |-> FALSE, Message |-> "value does not exist, cannot delete",
                     Steps |-> t1.steps, FinalTree |-> RB_getTreeSnapshot(t1)]]])
    ELSE
            Let([t1 \in {RB_addStep(tc, StepDelete, "found node to delete", tc.node[z].ID,
                             <<tc.node[z].ID>>)} |->
            Let([u \in {RB_unlink(t1, z)} |->
            Let([t2 \in {IF u.yOriginalColor = Black
                  THEN RB_deleteFixup(
                           RB_addStep(u.t, StepRebalance,
                                      "black node removed, fixup needed", NULL, <<>>),
                           u.x)
                  ELSE u.t} |->
            Let([t3 \in {RB_addStep(t2, StepComplete, "delete complete", NULL, <<>>)} |->
            Let([t4 \in {[t3 EXCEPT !.node = [n \in DOMAIN @ \ {z} |-> @[n]]]} |->
           [t |-> t4,
            res |-> [Success |-> TRUE, Message |-> "deleted value",
                     Steps |-> t4.steps, FinalTree |-> RB_getTreeSnapshot(t4)]]])])])])])])])

-----------------------------------------------------------------------------
(* AVL tree (datastructures/avltree.go).  A node's address is the id it    *)
(* was created with; its ID field is overwritten by delete.  NodeID of a   *)
(* step is a pointer to the ID field of a node, so steps keep the address. *)

NewAVLTree == [Root |-> NULL, nextID |-> 0, steps |-> <<>>, node |-> <<>>]

AVL_set(t, n, f, v) == [t EXCEPT !.node[n][f] = v]

AVL_clearSteps(t) == [t EXCEPT !.steps = <<>>]

RECURSIVE AVL_inorderSnapshot(_, _, _, _, _)
AVL_inorderSnapshot(t, n, depth, xMin, xMax) ==
    IF n = NULL THEN <<>>
    ELSE     Let([nd \in {t.node[n]} |->
             Let([x \in {(xMin + xMax) \div 2} |->
             LET Ref(p) == IF p # NULL THEN t.node[p].ID ELSE NULL IN
            <<[ID |-> nd.ID, Value |-> nd.Value, Color |-> "",
               LeftID |-> Ref(nd.Left), RightID |-> Ref(nd.Right),
               ParentID |-> NULL, Height |-> nd.Height,
               X |-> x, Y |-> depth * LevelHeight + TopMargin]>>
            \o AVL_inorderSnapshot(t, nd.Left, depth + 1, xMin, x)
            \o AVL_inorderSnapshot(t, nd.Right, depth + 1, x, xMax)])])

AVL_getTreeSnapshot(t) ==
    AVL_inorderSnapshot(t, t.Root, 0, 0, CanvasWidth * FixedPoint)

\* nodePtr is the address of the node whose ID field NodeID points to
AVL_addStep(t, stepType, desc, nodePtr, highlight) ==
    [t EXCEPT !.steps = Append(@, [Type |-> stepType, Description |-> desc,
                                   NodeID |-> nodePtr,
                                   TreeState |-> AVL_getTreeSnapshot(t),
                                   Highlight |-> highlight])]

height(t, n) == IF n = NULL THEN 0 ELSE t.node[n].Height

AVL_getBalance(t, n) ==
    IF n = NULL THEN 0 ELSE height(t, t.node[n].Left) - height(t, t.node[n].Right)

AVL_updateHeight(t, n) ==
    AVL_set(t, n, "Height", Max(height(t, t.node[n].Left), height(t, t.node[n].Right)) + 1)

\* rightRotate(y): [t, ret]
AVL_rightRotate(t, y) ==
        Let([x \in {t.node[y].Left} |->
        Let([T2 \in {t.node[x].Right} |->
        Let([t1 \in {AVL_set(t, x, "Right", y)} |->
        Let([t2 \in {AVL_set(t1, y, "Left", T2)} |->
        Let([t3 \in {AVL_updateHeight(t2, y)} |->
        Let([t4 \in {AVL_updateHeight(t3, x)} |->
       [t |-> AVL_addStep(t4, StepRotateRight, "rotate right", y,
                          <<t4.node[x].ID, t4.node[y].ID>>),
        ret |-> x]])])])])])])

\* leftRotate with the two height updates in the wrong order
AVL_leftRotate_heightOrder(t, x) ==
        Let([y \in {t.node[x].Right} |->
        Let([T2 \in {t.node[y].Left} |->
        Let([t1 \in {AVL_set(t, y, "Left", x)} |->
        Let([t2 \in {AVL_set(t1, x, "Right", T2)} |->
        Let([t3 \in {AVL_updateHeight(t2, y)} |->
        Let([t4 \in {AVL_updateHeight(t3, x)} |->
       [t |-> AVL_addStep(t4, StepRotateLeft, "rotate left", x,
                          <<t4.node[x].ID, t4.node[y].ID>>),
        ret |-> y]])])])])])])

\* leftRotate(x): [t, ret]
AVL_leftRotate(t, x) ==
        Let([y \in {t.node[x].Right} |->
        Let([T2 \in {t.node[y].Left} |->
        Let([t1 \in {AVL_set(t, y, "Left", x)} |->
        Let([t2 \in {AVL_set(t1, x, "Right", T2)} |->
        Let([t3 \in {AVL_updateHeight(t2, x)} |->
        Let([t4 \in {AVL_updateHeight(t3, y)} |->
       [t |-> AVL_addStep(t4, StepRotateLeft, "rotate left", x,
                          <<t4.node[x].ID, t4.node[y].ID>>),
        ret |-> y]])])])])])])

\* node.Left = leftRotate(node.Left); return rightRotate(node)
AVL_leftRightRotate(t, n) ==
        Let([r \in {AVL_leftRotate(t, t.node[n].Left)} |->
       AVL_rightRotate(AVL_set(r.t, n, "Left", r.ret), n)])

\* node.Right = rightRotate(node.Right); return leftRotate(node)
AVL_rightLeftRotate(t, n) ==
        Let([r \in {AVL_rightRotate(t, t.node[n].Right)} |->
       AVL_leftRotate(AVL_set(r.t, n, "Right", r.ret), n)])

\* the tail of insert, after the recursive call: height, balance, rotations
AVL_insertRebalance(t0, n, value) ==
        Let([t \in {AVL_updateHeight(t0, n)} |->
        Let([balance \in {AVL_getBalance(t, n)} |->
       IF balance > 1 /\ value < t.node[t.node[n].Left].Value
       THEN AVL_rightRotate(AVL_addStep(t, StepRebalance, "LL case", n, <<>>), n)
       ELSE IF balance < -1 /\ value > t.node[t.node[n].Right].Value
       THEN AVL_leftRotate(AVL_addStep(t, StepRebalance, "RR case", n, <<>>), n)
       ELSE IF balance > 1 /\ value > t.node[t.node[n].Left].Value
       THEN AVL_leftRightRotate(AVL_addStep(t, StepRebalance, "LR case", n, <<>>), n)
       ELSE IF balance < -1 /\ value < t.node[t.node[n].Right].Value
       THEN AVL_rightLeftRotate(AVL_addStep(t, StepRebalance, "RL case", n, <<>>), n)
       ELSE [t |-> t, ret |-> n]])])

\* insert(node, value): [t, ret]
\* the addresses reachable from n
RECURSIVE AVL_reachable(_, _)
AVL_reachable(t, n) ==
    IF n = NULL THEN {}
    ELSE {n} \cup AVL_reachable(t, t.node[n].Left) \cup AVL_reachable(t, t.node[n].Right)

\* a new node whose ID is the number of nodes the tree holds
AVL_newNode_countID(t, value) ==
    [t EXCEPT !.node = [m \in DOMAIN @ \cup {t.nextID} |->
                            IF m = t.nextID
                            THEN [ID |-> Cardinality(AVL_reachable(t, t.Root)),
                                  Value |-> value, Height |-> 1,
                                  Left |-> NULL, Right |-> NULL]
                            ELSE @[m]],
              !.nextID = @ + 1]

\* newNode := &AVLNode{ID: t.nextID, ...}; t.nextID++ : the node is at the
\* address t.nextID
AVL_newNode(t, value) ==
    [t EXCEPT !.node = [m \in DOMAIN @ \cup {t.nextID} |->
                            IF m = t.nextID
                            THEN [ID |-> t.nextID, Value |-> value, Height |-> 1,
                                  Left |-> NULL, Right |-> NULL]
                            ELSE @[m]],
              !.nextID = @ + 1]

RECURSIVE AVL_insert(_, _, _)
AVL_insert(t, n, value) ==
    IF n = NULL THEN
            Let([a \in {t.nextID} |->
            Let([t1 \in {AVL_newNode(t, value)} |->
           [t |-> AVL_addStep(t1, StepInsert, "insert node", a, <<t1.node[a].ID>>),
            ret |-> a]])])
    ELSE
            Let([t1 \in {AVL_addStep(t, StepCompare, "compare", n, <<t.node[n].ID>>)} |->
           IF value < t1.node[n].Value THEN
                   Let([r \in {AVL_insert(t1, t1.node[n].Left, value)} |->
                  AVL_insertRebalance(AVL_set(r.t, n, "Left", r.ret), n, value)])
           ELSE IF value > t1.node[n].Value THEN
                   Let([r \in {AVL_insert(t1, t1.node[n].Right, value)} |->
                  AVL_insertRebalance(AVL_set(r.t, n, "Right", r.ret), n, value)])
           ELSE [t |-> t1, ret |-> n]])

\* what the garbage collector leaves when a call returns: the nodes of the
\* tree and the nodes a step of the trace points to
AVL_collect(t) ==
        Let([keep \in {AVL_reachable(t, t.Root)
                \cup ({t.steps[i].NodeID : i \in DOMAIN t.steps} \ {NULL})} |->
       [t EXCEPT !.node = [m \in keep |-> @[m]]]])

\* the trace as the handler writes it: every NodeID pointer dereferenced
AVL_encodeSteps(t) ==
    [i \in DOMAIN t.steps |->
        [t.steps[i] EXCEPT !.NodeID = IF @ = NULL THEN NULL ELSE t.node[@].ID]]

AVL_result(t, success, message) ==
    [Success |-> success, Message |-> message, Steps |-> AVL_encodeSteps(t),
     FinalTree |-> AVL_getTreeSnapshot(t)]

AVL_Insert(t0, value) ==
        Let([t1 \in {AVL_addStep(AVL_clearSteps(t0), StepInsert, "start insert", NULL, <<>>)} |->
        Let([r \in {AVL_insert(t1, t1.Root, value)} |->
        Let([t2 \in {[r.t EXCEPT !.Root = r.ret]} |->
        Let([t3 \in {AVL_collect(AVL_addStep(t2, StepComplete, "insert complete", NULL, <<>>))} |->
       [t |-> t3, res |-> AVL_result(t3, TRUE, "")]])])])])

RECURSIVE AVL_searchLoop(_, _, _)
AVL_searchLoop(t, current, value) ==
    IF current = NULL THEN [t |-> t, found |-> FALSE]
    ELSE     Let([t1 \in {AVL_addStep(t, StepCompare, "compare", current,
                               <<t.node[current].ID>>)} |->
            IF value = t1.node[current].Value
            THEN [t |-> AVL_addStep(t1, StepFound, "found node", current,
                                    <<t1.node[current].ID>>),
                  found |-> TRUE]
            ELSE IF value < t1.node[current].Value
            THEN AVL_searchLoop(t1, t1.node[current].Left, value)
            ELSE AVL_searchLoop(t1, t1.node[current].Right, value)])

\* Search that draws an id from the tree's counter
AVL_Search_drawsID(t0, value) ==
        Let([s \in {AVL_searchLoop(AVL_clearSteps(t0), t0.Root, value)} |->
        Let([t1 \in {AVL_collect(IF s.found THEN s.t
                          ELSE AVL_addStep(s.t, StepNotFound, "value not in tree",
                                           NULL, <<>>))} |->
       [t |-> [t1 EXCEPT !.nextID = @ + 1],
        res |-> AVL_result(t1, s.found,
                           IF s.found THEN "found value" ELSE "value does not exist")]])])

AVL_Search(t0, value) ==
        Let([s \in {AVL_searchLoop(AVL_clearSteps(t0), t0.Root, value)} |->
        Let([t1 \in {AVL_collect(IF s.found THEN s.t
                          ELSE AVL_addStep(s.t, StepNotFound, "value not in tree",
                                           NULL, <<>>))} |->
       [t |-> t1,
        res |-> AVL_result(t1, s.found,
                           IF s.found THEN "found value" ELSE "value does not exist")]])])

RECURSIVE AVL_minValueNode(_, _)
AVL_minValueNode(t, n) ==
    IF t.node[n].Left # NULL THEN AVL_minValueNode(t, t.node[n].Left) ELSE n

\* the tail of delete with the height update alone, the rotations forgotten
AVL_deleteRebalance_heightOnly(t0, n) == [t |-> AVL_updateHeight(t0, n), ret |-> n]

\* the tail of delete, after the recursive call: height, balance, rotations
AVL_deleteRebalance(t0, n) ==
        Let([t \in {AVL_updateHeight(t0, n)} |->
        Let([balance \in {AVL_getBalance(t, n)} |->
        Let([id \in {t.node[n].ID} |->
       IF balance > 1 /\ AVL_getBalance(t, t.node[n].Left) >= 0
       THEN AVL_rightRotate(AVL_addStep(t, StepRebalance, "LL case", n, <<id>>), n)
       ELSE IF balance > 1 /\ AVL_getBalance(t, t.node[n].Left) < 0
       THEN AVL_leftRightRotate(AVL_addStep(t, StepRebalance, "LR case", n, <<id>>), n)
       ELSE IF balance < -1 /\ AVL_getBalance(t, t.node[n].Right) <= 0
       THEN AVL_leftRotate(AVL_addStep(t, StepRebalance, "RR case", n, <<id>>), n)
       ELSE IF balance < -1 /\ AVL_getBalance(t, t.node[n].Right) > 0
       THEN AVL_rightLeftRotate(AVL_addStep(t, StepRebalance, "RL case", n, <<id>>), n)
       ELSE [t |-> t, ret |-> n]])])])

\* delete(node, value): [t, ret]
RECURSIVE AVL_delete(_, _, _)
AVL_delete(t, n, value) ==
    IF n = NULL THEN
        [t |-> AVL_addStep(t, StepNotFound, "value not in tree", NULL, <<>>),
         ret |-> n]
    ELSE
            Let([t1 \in {AVL_addStep(t, StepCompare, "compare", n, <<t.node[n].ID>>)} |->
           IF value < t1.node[n].Value THEN
                   Let([r \in {AVL_delete(t1, t1.node[n].Left, value)} |->
                  AVL_deleteRebalance(AVL_set(r.t, n, "Left", r.ret), n)])
           ELSE IF value > t1.node[n].Value THEN
                   Let([r \in {AVL_delete(t1, t1.node[n].Right, value)} |->
                  AVL_deleteRebalance(AVL_set(r.t, n, "Right", r.ret), n)])
           ELSE
                   Let([t2 \in {AVL_addStep(t1, StepDelete, "found node to delete", n,
                                     <<t1.node[n].ID>>)} |->
                  IF t2.node[n].Left = NULL THEN
                      [t |-> AVL_addStep(t2, StepDelete, "no left child", n, <<>>),
                       ret |-> t2.node[n].Right]
                  ELSE IF t2.node[n].Right = NULL THEN
                      [t |-> AVL_addStep(t2, StepDelete, "no right child", n, <<>>),
                       ret |-> t2.node[n].Left]
                  ELSE
                          Let([successor \in {AVL_minValueNode(t2, t2.node[n].Right)} |->
                          Let([sv \in {t2.node[successor].Value} |->
                          Let([t3 \in {AVL_addStep(t2, StepDelete,
                                            "two children: successor found", successor,
                                            <<t2.node[n].ID, t2.node[successor].ID>>)} |->
                          Let([t4 \in {AVL_set(t3, n, "Value", sv)} |->
                          Let([t5 \in {AVL_set(t4, n, "ID", t4.node[successor].ID)} |->
                          Let([t6 \in {AVL_addStep(t5, StepDelete, "replaced by successor",
                                            n, <<>>)} |->
                          Let([r \in {AVL_delete(t6, t6.node[n].Right, sv)} |->
                         AVL_deleteRebalance(AVL_set(r.t, n, "Right", r.ret), n)])])])])])])])])])

\* Delete without its search for the value: delete is called in any case
AVL_exists_unchecked(t, current, value) == TRUE

\* the search of Delete that decides whether the value exists
RECURSIVE AVL_exists(_, _, _)
AVL_exists(t, current, value) ==
    IF current = NULL THEN FALSE
    ELSE IF value = t.node[current].Value THEN TRUE
    ELSE IF value < t.node[current].Value
    THEN AVL_exists(t, t.node[current].Left, value)
    ELSE AVL_exists(t, t.node[current].Right, value)

AVL_Delete(t0, value) ==
        Let([t1 \in {AVL_addStep(AVL_clearSteps(t0), StepDelete, "start delete", NULL, <<>>)} |->
       IF ~AVL_exists(t1, t1.Root, value) THEN
               Let([t2 \in {AVL_collect(AVL_addStep(t1, StepNotFound,
                                             "value not in tree, cannot delete",
                                             NULL, <<>>))} |->
              [t |-> t2,
               res |-> AVL_result(t2, FALSE, "value does not exist, cannot delete")]])
       ELSE
               Let([r \in {AVL_delete(t1, t1.Root, value)} |->
               Let([t2 \in {[r.t EXCEPT !.Root = r.ret]} |->
               Let([t3 \in {AVL_collect(AVL_addStep(t2, StepComplete, "delete complete",
                                             NULL, <<>>))} |->
              [t |-> t3, res |-> AVL_result(t3, TRUE, "deleted value")]])])])])

-----------------------------------------------------------------------------
(* Weighted graph and Dijkstra (datastructures/graph.go).  A Go map is a   *)
(* function; a key that is missing reads as the zero value of the type.    *)

NewGraph == [Nodes |-> <<>>, NodeCoords |-> <<>>, steps |-> <<>>]

\* m[k] of a Go map, zero the value a missing key reads as
MapGet(m, k, zero) == IF k \in DOMAIN m THEN m[k] ELSE zero

\* m[k] = v of a Go map
MapPut(m, k, v) == [j \in DOMAIN m \cup {k} |-> IF j = k THEN v ELSE m[j]]

\* clearSteps left out: the trace of the call before stays in front
G_clearSteps_keep(g) == g

G_clearSteps(g) == [g EXCEPT !.steps = <<>>]

\* path[i], path[i+1] are a and b in one of the two orders, for some i
OnPath(path, a, b) ==
    \E i \in 1..(Len(path) - 1) :
        \/ path[i] = a /\ path[i + 1] = b
        \/ path[i] = b /\ path[i + 1] = a

\* the snapshot lists nodes and edges in the iteration order of the map, which
\* Go leaves open: GraphNodes is kept by node id, GraphEdges by source node.
\* currentEdge is <<>> for a nil pointer.
G_addStep(g, stepType, desc, distances, visited, path, currentEdge) ==
        Let([nodes \in {[id \in DOMAIN g.Nodes |->
                    [ID |-> id, Label |-> id,
                     X |-> MapGet(g.NodeCoords, id, <<0, 0>>)[1],
                     Y |-> MapGet(g.NodeCoords, id, <<0, 0>>)[2],
                     Distance |-> IF MapGet(distances, id, 0) # MaxInt32
                                  THEN MapGet(distances, id, 0) ELSE NULL,
                     Visited |-> MapGet(visited, id, FALSE),
                     InPath |-> \E i \in DOMAIN path : path[i] = id]]} |->
        Let([edges \in {[from \in DOMAIN g.Nodes |->
                    [i \in DOMAIN g.Nodes[from] |->
                            Let([e \in {g.Nodes[from][i]} |->
                           [From |-> from, To |-> e.To, Weight |-> e.Weight,
                            InPath |-> OnPath(path, from, e.To),
                            Selected |-> /\ currentEdge # <<>>
                                         /\ OnPath(currentEdge, from, e.To)]])]]} |->
       [g EXCEPT !.steps = Append(@, [Type |-> stepType, Description |-> desc,
                                      GraphNodes |-> nodes, GraphEdges |-> edges])]])])

AddNode(g, id, x, y) ==
    [g EXCEPT !.Nodes = IF id \in DOMAIN @ THEN @ ELSE MapPut(@, id, <<>>),
              !.NodeCoords = MapPut(@, id, <<x, y>>)]

AddEdge(g, from, to, weight) ==
        Let([n1 \in {MapPut(g.Nodes, from,
                     Append(MapGet(g.Nodes, from, <<>>), [To |-> to, Weight |-> weight]))} |->
        Let([n2 \in {MapPut(n1, to,
                     Append(MapGet(n1, to, <<>>), [To |-> from, Weight |-> weight]))} |->
       [g EXCEPT !.Nodes = n2]])])

\* Less with the comparison turned around: the queue gives the largest first
PQ_Less_greater(pq, i, j) == pq[i].priority > pq[j].priority

\* PriorityQueue.Less on a queue kept as a sequence (index i of Go is i + 1)
PQ_Less(pq, i, j) == pq[i].priority < pq[j].priority

PQ_Swap(pq, i, j) == [pq EXCEPT ![i] = pq[j], ![j] = pq[i]]

\* up(h, j) of container/heap, on 1-based positions
RECURSIVE heap_up(_, _)
heap_up(pq, j) ==
        Let([i \in {j \div 2} |->
       IF i < 1 \/ ~PQ_Less(pq, j, i) THEN pq
       ELSE heap_up(PQ_Swap(pq, i, j), i)])

\* down(h, i, n) of container/heap, on 1-based positions
RECURSIVE heap_down(_, _, _)
heap_down(pq, i, n) ==
        Let([j1 \in {2 * i} |->
        Let([j2 \in {j1 + 1} |->
        Let([j \in {IF j2 <= n /\ PQ_Less(pq, j2, j1) THEN j2 ELSE j1} |->
       IF j1 > n THEN pq
       ELSE IF ~PQ_Less(pq, j, i) THEN pq
       ELSE heap_down(PQ_Swap(pq, i, j), j, n)])])])

\* heap.Push(&pq, item)
heap_Push(pq, item) == heap_up(Append(pq, item), Len(pq) + 1)

\* heap.Pop(&pq): [pq, item]
heap_Pop(pq) ==
        Let([n \in {Len(pq)} |->
        Let([h \in {heap_down(PQ_Swap(pq, 1, n), 1, n - 1)} |->
       [pq |-> SubSeq(h, 1, n - 1), item |-> h[n]]])])

\* the path of Dijkstra: from end back over previous until the empty string
RECURSIVE G_reconstruct(_, _, _)
G_reconstruct(previous, at, path) ==
    IF at = "" THEN path
    ELSE G_reconstruct(previous, MapGet(previous, at, ""), <<at>> \o path)

\* the test of relax with "<=" for "<"
G_improves_orEqual(here, weight, there) == weight <= there - here

\* the test of relax left out: every open edge updates
G_improves_always(here, weight, there) == TRUE

\* newDist < distances[edge.To] for newDist := distances[current.node] +
\* edge.Weight, without forming a sum above 2^31
G_improves(here, weight, there) == weight < there - here

\* the relaxation loop of Dijkstra over the edges i.. of current;
\* d is [g, distances, previous, visited, pq]
RECURSIVE G_relax(_, _, _)
G_relax(d, current, i) ==
        Let([edges \in {MapGet(d.g.Nodes, current, <<>>)} |->
    IF i > Len(edges) THEN d
    ELSE     Let([edge \in {edges[i]} |->
             Let([here \in {MapGet(d.distances, current, 0)} |->
             Let([there \in {MapGet(d.distances, edge.To, 0)} |->
             Let([less \in {G_improves(here, edge.Weight, there)} |->
            IF MapGet(d.visited, edge.To, FALSE) THEN G_relax(d, current, i + 1)
            ELSE IF less THEN
                    Let([newDist \in {here + edge.Weight} |->
                    Let([dist \in {MapPut(d.distances, edge.To, newDist)} |->
                    Let([d1 \in {[d EXCEPT !.distances = dist,
                                    !.previous = MapPut(@, edge.To, current),
                                    !.pq = heap_Push(@, [node |-> edge.To,
                                                         priority |-> newDist])]} |->
                   G_relax([d1 EXCEPT !.g = G_addStep(@, StepUpdateDist,
                                                      <<"update distance", edge.To,
                                                        newDist, current>>,
                                                      dist, d.visited, <<>>,
                                                      <<current, edge.To>>)],
                           current, i + 1)])])])
            ELSE G_relax([d EXCEPT !.g = G_addStep(@, StepCompare,
                                                   <<"no update", current, edge.To>>,
                                                   d.distances, d.visited, <<>>,
                                                   <<current, edge.To>>)],
                         current, i + 1)])])])])])

\* the loop of Dijkstra without "if visited[current.node] { continue }"
G_popVisited_never(visited, node) == FALSE

\* visited[current.node] of the entry the loop has popped
G_popVisited(visited, node) == MapGet(visited, node, FALSE)

\* the main loop of Dijkstra: [g, res]
RECURSIVE G_loop(_, _)
G_loop(d, end) ==
    IF Len(d.pq) = 0 THEN
            Let([g1 \in {G_addStep(d.g, StepNotFound, "cannot reach", d.distances,
                            d.visited, <<>>, <<>>)} |->
           [g |-> g1,
            res |-> [Success |-> FALSE, Message |-> <<"cannot reach target">>,
                     Steps |-> g1.steps, FinalGraph |-> NULL]]])
    ELSE
            Let([p \in {heap_Pop(d.pq)} |->
            Let([current \in {p.item.node} |->
           IF G_popVisited(d.visited, current)
           THEN G_loop([d EXCEPT !.pq = p.pq], end)
           ELSE
                   Let([visited \in {MapPut(d.visited, current, TRUE)} |->
                   Let([g1 \in {G_addStep(d.g, StepSelectNode,
                                   <<"select node", current,
                                     MapGet(d.distances, current, 0)>>,
                                   d.distances, visited, <<>>, <<>>)} |->
                   Let([d1 \in {[d EXCEPT !.pq = p.pq, !.visited = visited, !.g = g1]} |->
                  IF current = end THEN
                          Let([path \in {G_reconstruct(d.previous, end, <<>>)} |->
                          Let([g2 \in {G_addStep(g1, StepComplete, <<"shortest path", path>>,
                                          d.distances, visited, path, <<>>)} |->
                          Let([last \in {g2.steps[Len(g2.steps)]} |->
                         [g |-> g2,
                          res |-> [Success |-> TRUE,
                                   Message |-> <<"shortest path distance",
                                                 MapGet(d.distances, end, 0)>>,
                                   Steps |-> g2.steps,
                                   FinalGraph |-> [Nodes |-> last.GraphNodes,
                                                   Edges |-> last.GraphEdges]]]])])])
                  ELSE G_loop(G_relax(d1, current, 1), end)])])])])])

\* the orders in which "for k := range m" can visit the keys of the map m
RECURSIVE RangeOrdersOf(_)
RangeOrdersOf(keys) ==
    IF keys = {} THEN {<<>>}
    ELSE UNION {{<<k>> \o rest : rest \in RangeOrdersOf(keys \ {k})} : k \in keys}

RangeOrders(m) == RangeOrdersOf(DOMAIN m)

\* the loop over g.Nodes that leaves it at the start node
RECURSIVE G_initDistances_untilStart(_, _, _)
G_initDistances_untilStart(order, start, distances) ==
    IF order = <<>> \/ order[1] = start THEN MapPut(distances, start, 0)
    ELSE G_initDistances_untilStart(Tail(order), start,
                                    MapPut(distances, order[1], MaxInt32))

\* distances after "for node := range g.Nodes { distances[node] = MaxInt32 }"
\* and "distances[start] = 0", the loop visiting the nodes in the order given
RECURSIVE G_initDistances(_, _, _)
G_initDistances(order, start, distances) ==
    IF order = <<>> THEN MapPut(distances, start, 0)
    ELSE G_initDistances(Tail(order), start, MapPut(distances, order[1], MaxInt32))

\* Dijkstra that enters the start node in the graph before it searches
G_search_addsStart(g0, distances, start, end) ==
        Let([g1 \in {G_addStep(G_clearSteps(AddNode(g0, start, 0, 0)), StepVisit,
                        "initialize", distances, <<>>, <<>>, <<>>)} |->
       G_loop([g |-> g1, distances |-> distances, previous |-> <<>>,
               visited |-> <<>>,
               pq |-> heap_Push(<<>>, [node |-> start, priority |-> 0])],
              end)])

\* Dijkstra from its first addStep on: [g, res]
G_search(g0, distances, start, end) ==
        Let([g1 \in {G_addStep(G_clearSteps(g0), StepVisit, "initialize", distances,
                        <<>>, <<>>, <<>>)} |->
       G_loop([g |-> g1, distances |-> distances, previous |-> <<>>,
               visited |-> <<>>,
               pq |-> heap_Push(<<>>, [node |-> start, priority |-> 0])],
              end)])

\* Dijkstra(start, end) when its range loop visits the nodes in the order
\* given: [g, res]
Dijkstra(g0, start, end, order) ==
    G_search(g0, G_initDistances(order, start, <<>>), start, end)

\* the AddNode calls, then the AddEdge calls, of CreateSampleGraph in their order
RECURSIVE G_build(_, _, _)
G_build(g, nodes, edges) ==
    IF nodes # <<>>
    THEN G_build(AddNode(g, nodes[1][1], nodes[1][2], nodes[1][3]), Tail(nodes), edges)
    ELSE IF edges # <<>>
    THEN G_build(AddEdge(g, edges[1][1], edges[1][2], edges[1][3]), nodes, Tail(edges))
    ELSE g

CreateSampleGraph ==
    G_build(NewGraph,
            << <<"A", 100, 150>>, <<"B", 250, 50>>, <<"C", 250, 250>>,
               <<"D", 400, 100>>, <<"E", 400, 200>>, <<"F", 550, 150>> >>,
            << <<"A", "B", 4>>, <<"A", "C", 2>>, <<"B", "C", 1>>,
               <<"B", "D", 5>>, <<"C", "D", 8>>, <<"C", "E", 10>>,
               <<"D", "E", 2>>, <<"D", "F", 6>>, <<"E", "F", 3>> >>)

-----------------------------------------------------------------------------
(* The benchmark runner (benchmark/runner.go) and its streaming handler    *)
(* (handlers/benchmark.go).  A channel of struct{} is the id it was made   *)
(* with, closed when the id is in stopChans.closed; a buffered channel is  *)
(* the sequence of the values it holds.                                    *)

\* the lists of structure kinds a request can carry
BenchStructures ==
    {<<a>> : a \in BenchKinds} \cup {<<a, b>> : a \in BenchKinds, b \in BenchKinds}

\* NewRunner, its stop channel made as ch
NewRunner(ch) == [running |-> FALSE, stopChan |-> ch]

BenchmarkResult(structure, progress, completed) ==
    [Structure |-> structure, Progress |-> progress, Completed |-> completed]

\* a connection no request has arrived on
IdleConn ==
    [state |-> "idle", DataSize |-> 0, Structures |-> <<>>, Operation |-> "",
     data |-> <<>>, resultChan |-> <<>>, doneChan |-> FALSE, clientGone |-> FALSE,
     pc |-> "idle", runner |-> NULL, started |-> FALSE, workers |-> <<>>,
     completedCount |-> 0, written |-> <<>>, complete |-> FALSE,
     delivered |-> <<>>]

InitBenchmark ==
    /\ benchmarkRunner = 0
    /\ runnerMutex = FALSE
    /\ runners = [r \in {0} |-> NewRunner(0)]
    /\ stopChans = [next |-> 1, closed |-> {}]
    /\ conns = [c \in Conns |-> IdleConn]

\* the head of RunBenchmark, under r.mu: [r, started]
RunBenchmark_rejectClears(r, ch) ==
    IF r.running
    THEN [r |-> [r EXCEPT !.running = FALSE], started |-> FALSE]
    ELSE [r |-> [running |-> TRUE, stopChan |-> ch], started |-> TRUE]

\* the head of RunBenchmark without "r.stopChan = make(chan struct{})"
RunBenchmark_keepsChan(r, ch) ==
    IF r.running
    THEN [r |-> r, started |-> FALSE]
    ELSE [r |-> [running |-> TRUE, stopChan |-> r.stopChan], started |-> TRUE]

RunBenchmark_enter(r, ch) ==
    IF r.running
    THEN [r |-> r, started |-> FALSE]
    ELSE [r |-> [running |-> TRUE, stopChan |-> ch], started |-> TRUE]

reportInterval(total) == IF total \div 20 < 1 THEN 1 ELSE total \div 20

\* generateRandomData(size): the datasets rand.Intn(size * 10) can give, their
\* elements taken among values
generateRandomData(size, values) == [1..size -> values \cap (0..(size * 10 - 1))]

\* the values rand.Intn(n) can return
rand_Intn(n) == 0..(n - 1)

\* the argument of rand.Intn in the pass the worker w is about to make, 0 when
\* the pass does not search: i, or len(tree) in benchmarkBTree
probeBound(w, operation) ==
    IF operation # "search" THEN 0
    ELSE IF w.structure = "btree" THEN Len(w.m) ELSE w.i

\* one pass of the loop of benchmarkHashMap, benchmarkBTree, benchmarkRBTree
\* or benchmarkAVLTree over element w.i: [w, out], out the results it reports
\* w.m is the keys the worker has put into its structure, in the order of
\* the insertions; w.probe the key the pass has searched, NULL when it has
\* searched none; rnd what rand.Intn returns in the pass
benchmarkLoop_progressDown(w, operation, data, stopClosed, rnd) ==
    IF stopClosed THEN [w |-> [w EXCEPT !.pc = "final"], out |-> <<>>]
    ELSE [w |-> [w EXCEPT !.i = @ + 1,
                          !.pc = IF w.i + 1 < Len(data) THEN "loop" ELSE "final",
                          !.m = IF operation = "insert"
                                THEN Append(@, data[w.i + 1]) ELSE @,
                          !.probe = IF probeBound(w, operation) > 0
                                    THEN data[rnd + 1] ELSE NULL],
          out |-> IF w.i > 0 /\ w.i % reportInterval(Len(data)) = 0
                  THEN <<BenchmarkResult(w.structure,
                                         ((Len(data) - w.i) * 100) \div Len(data),
                                         FALSE)>>
                  ELSE <<>>]

benchmarkLoop(w, operation, data, stopClosed, rnd) ==
    IF stopClosed THEN [w |-> [w EXCEPT !.pc = "final"], out |-> <<>>]
    ELSE [w |-> [w EXCEPT !.i = @ + 1,
                          !.pc = IF w.i + 1 < Len(data) THEN "loop" ELSE "final",
                          !.m = IF operation = "insert"
                                THEN Append(@, data[w.i + 1]) ELSE @,
                          !.probe = IF probeBound(w, operation) > 0
                                    THEN data[rnd + 1] ELSE NULL],
          out |-> IF w.i > 0 /\ w.i % reportInterval(Len(data)) = 0
                  THEN <<BenchmarkResult(w.structure, (w.i * 100) \div Len(data),
                                         FALSE)>>
                  ELSE <<>>]

\* the end of runSingleBenchmark without its callback
runSingleBenchmark_final_silent(w) ==
    [w |-> [w EXCEPT !.pc = "done"], out |-> <<>>]

\* the end of runSingleBenchmark, after the loop has returned: [w, out]
runSingleBenchmark_final(w) ==
    [w |-> [w EXCEPT !.pc = "done"],
     out |-> <<BenchmarkResult(w.structure, 100, TRUE)>>]

\* the next step of a worker: [w, out]
runSingleBenchmark(w, operation, data, stopClosed, rnd) ==
    IF w.pc = "loop" THEN benchmarkLoop(w, operation, data, stopClosed, rnd)
    ELSE runSingleBenchmark_final(w)

\* the callback of the handler on the results out (none or one): the channel
\* takes a result when it has room
Callback(resultChan, out) ==
    IF out # <<>> /\ Len(resultChan) < ResultChanCap
    THEN Append(resultChan, out[1])
    ELSE resultChan

\* Stop without "if r.running": it closes the channel of an idle runner too
Stop_idleToo(r, closed) ==
    IF r.stopChan \in closed
    THEN [closed |-> closed, panic |-> TRUE]
    ELSE [closed |-> closed \cup {r.stopChan}, panic |-> FALSE]

\* Stop of the runner r: [closed, panic], panic when close finds the channel
\* closed already
Stop(r, closed) ==
    IF r.running
    THEN IF r.stopChan \in closed
         THEN [closed |-> closed, panic |-> TRUE]
         ELSE [closed |-> closed \cup {r.stopChan}, panic |-> FALSE]
    ELSE [closed |-> closed, panic |-> FALSE]

-----------------------------------------------------------------------------
(* The requests and the state (backend/handlers/operation.go) *)

Init ==
    /\ rbTree = NewRedBlackTree
    /\ avlTree = NewAVLTree
    /\ graph = CreateSampleGraph
    /\ req = [Structure |-> "", Operation |-> "", Value |-> 0]
    /\ result = [Success |-> TRUE, Message |-> "", Steps |-> <<>>, FinalTree |-> <<>>]
    /\ live = [s \in {"rbtree", "avltree"} |-> {}]
    /\ InitBenchmark

RBInsert(value) ==
    /\ LET r == RB_Insert(rbTree, value)
       IN /\ rbTree' = r.t
          /\ result' = r.res
    /\ req' = [Structure |-> "rbtree", Operation |-> "insert", Value |-> value]
    /\ live' = [live EXCEPT !["rbtree"] = @ \cup {value}]
    /\ UNCHANGED <<avlTree, graph>>
    /\ UNCHANGED benchVars

RBSearch(value) ==
    /\ LET r == RB_Search(rbTree, value)
       IN /\ rbTree' = r.t
          /\ result' = r.res
    /\ req' = [Structure |-> "rbtree", Operation |-> "search", Value |-> value]
    /\ UNCHANGED <<avlTree, graph, live>>
    /\ UNCHANGED benchVars

RBDelete(value) ==
    /\ LET r == RB_Delete(rbTree, value)
       IN /\ rbTree' = r.t
          /\ result' = r.res
    /\ req' = [Structure |-> "rbtree", Operation |-> "delete", Value |-> value]
    /\ live' = [live EXCEPT !["rbtree"] = @ \ {value}]
    /\ UNCHANGED <<avlTree, graph>>
    /\ UNCHANGED benchVars

AVLInsert(value) ==
    /\ LET r == AVL_Insert(avlTree, value)
       IN /\ avlTree' = r.t
          /\ result' = r.res
    /\ req' = [Structure |-> "avltree", Operation |-> "insert", Value |-> value]
    /\ live' = [live EXCEPT !["avltree"] = @ \cup {value}]
    /\ UNCHANGED <<rbTree, graph>>
    /\ UNCHANGED benchVars

AVLSearch(value) ==
    /\ LET r == AVL_Search(avlTree, value)
       IN /\ avlTree' = r.t
          /\ result' = r.res
    /\ req' = [Structure |-> "avltree", Operation |-> "search", Value |-> value]
    /\ UNCHANGED <<rbTree, graph, live>>
    /\ UNCHANGED benchVars

AVLDelete(value) ==
    /\ LET r == AVL_Delete(avlTree, value)
       IN /\ avlTree' = r.t
          /\ result' = r.res
    /\ req' = [Structure |-> "avltree", Operation |-> "delete", Value |-> value]
    /\ live' = [live EXCEPT !["avltree"] = @ \ {value}]
    /\ UNCHANGED <<rbTree, graph>>
    /\ UNCHANGED benchVars

GraphAddNode(id, x, y) ==
    /\ graph' = AddNode(graph, id, x, y)
    /\ UNCHANGED <<rbTree, avlTree, req, result, live>>
    /\ UNCHANGED benchVars

GraphAddEdge(from, to, weight) ==
    /\ graph' = AddEdge(graph, from, to, weight)
    /\ UNCHANGED <<rbTree, avlTree, req, result, live>>
    /\ UNCHANGED benchVars

GraphDijkstra(start, end) ==
    /\ \E distances \in {G_initDistances(order, start, <<>>) :
                             order \in RangeOrders(graph.Nodes)} :
          LET r == G_search(graph, distances, start, end)
          IN /\ graph' = r.g
             /\ result' = r.res
    /\ req' = [Structure |-> "graph", Operation |-> "shortest_path",
               Start |-> start, End |-> end]
    /\ UNCHANGED <<rbTree, avlTree, live>>
    /\ UNCHANGED benchVars

\* a reset request that replaces every instance, as HandleReset does
RBReset_all ==
    /\ rbTree' = NewRedBlackTree
    /\ avlTree' = NewAVLTree
    /\ graph' = CreateSampleGraph
    /\ result' = [Success |-> TRUE, Message |-> "reset", Steps |-> <<>>,
                  FinalTree |-> <<>>]
    /\ req' = [Structure |-> "rbtree", Operation |-> "reset", Value |-> 0]
    /\ live' = [live EXCEPT !["rbtree"] = {}]
    /\ UNCHANGED benchVars

RBReset ==
    /\ rbTree' = NewRedBlackTree
    /\ result' = [Success |-> TRUE, Message |-> "reset", Steps |-> <<>>,
                  FinalTree |-> <<>>]
    /\ req' = [Structure |-> "rbtree", Operation |-> "reset", Value |-> 0]
    /\ live' = [live EXCEPT !["rbtree"] = {}]
    /\ UNCHANGED <<avlTree, graph>>
    /\ UNCHANGED benchVars

AVLReset ==
    /\ avlTree' = NewAVLTree
    /\ result' = [Success |-> TRUE, Message |-> "reset", Steps |-> <<>>,
                  FinalTree |-> <<>>]
    /\ req' = [Structure |-> "avltree", Operation |-> "reset", Value |-> 0]
    /\ live' = [live EXCEPT !["avltree"] = {}]
    /\ UNCHANGED <<rbTree, graph>>
    /\ UNCHANGED benchVars

GraphReset ==
    /\ graph' = CreateSampleGraph
    /\ result' = [Success |-> TRUE, Message |-> "reset", Steps |-> <<>>,
                  FinalTree |-> <<>>]
    /\ req' = [Structure |-> "graph", Operation |-> "reset", Value |-> 0]
    /\ UNCHANGED <<rbTree, avlTree, live>>
    /\ UNCHANGED benchVars

\* Insert and Delete requests to the red-black tree alone; Search writes the
\* trace and leaves the tree as it is
NextRB ==
    \/ \E value \in RBKeys : rbTree.nextID < MaxRBNodes /\ RBInsert(value)
    \/ \E value \in RBKeys : RBDelete(value)

SpecRB == Init /\ [][NextRB]_vars

\* requests to the AVL tree alone
NextAVL ==
    \/ \E value \in AVLKeys : avlTree.nextID < MaxAVLNodes /\ AVLInsert(value)
    \/ \E value \in AVLKeys : AVLSearch(value)
    \/ \E value \in AVLKeys : AVLDelete(value)

SpecAVL == Init /\ [][NextAVL]_vars

\* the number of edges added to the graph
RECURSIVE SumLen(_, _)
SumLen(nodes, ids) ==
    IF ids = {} THEN 0
    ELSE LET id == CHOOSE j \in ids : TRUE
         IN Len(nodes[id]) + SumLen(nodes, ids \ {id})

\* the number of AddEdge calls that built g: each call appends two entries
GraphEdgeCount(g) == SumLen(g.Nodes, DOMAIN g.Nodes) \div 2

\* a graph built by a test, call by call, and searched
InitGraph ==
    /\ rbTree = NewRedBlackTree
    /\ avlTree = NewAVLTree
    /\ graph = NewGraph
    /\ req = [Structure |-> "", Operation |-> "", Value |-> 0]
    /\ result = [Success |-> TRUE, Message |-> "", Steps |-> <<>>, FinalTree |-> <<>>]
    /\ live = [s \in {"rbtree", "avltree"} |-> {}]
    /\ InitBenchmark

\* A test builds its graph as CreateSampleGraph does, the nodes of an edge
\* before the edge, and searches it once it is built.
NextGraph ==
    \/ \E id \in NodeIds :
          /\ graph.steps = <<>>
          /\ GraphAddNode(id, 100, 150)
    \/ \E from, to \in DOMAIN graph.Nodes, weight \in Weights :
          /\ graph.steps = <<>>
          /\ from # to
          /\ GraphEdgeCount(graph) < MaxEdges
          /\ GraphAddEdge(from, to, weight)
    \/ \E start, end \in NodeIds : GraphDijkstra(start, end)

SpecGraph == InitGraph /\ [][NextGraph]_vars

\* the graph of the shortest-path scenario: its nodes and its AddEdge calls
ScenarioNodes == {"A", "B", "C", "D"}

ScenarioEdges ==
    {<<"A", "B", 4>>, <<"A", "C", 2>>, <<"C", "B", 1>>, <<"B", "D", 5>>, <<"C", "D", 8>>}

\* AddEdge(e[1], e[2], e[3]) has been called on g
HasEdge(g, e) ==
    /\ e[1] \in DOMAIN g.Nodes
    /\ \E i \in DOMAIN g.Nodes[e[1]] : g.Nodes[e[1]][i] = [To |-> e[2], Weight |-> e[3]]

\* A test builds the scenario's graph, the nodes and then the edges in any
\* order, and searches it, built or half built.
NextScenario ==
    \/ \E id \in ScenarioNodes :
          /\ graph.steps = <<>>
          /\ id \notin DOMAIN graph.Nodes
          /\ GraphAddNode(id, 100, 150)
    \/ \E e \in ScenarioEdges :
          /\ graph.steps = <<>>
          /\ DOMAIN graph.Nodes = ScenarioNodes
          /\ ~HasEdge(graph, e)
          /\ GraphAddEdge(e[1], e[2], e[3])
    \/ \E start, end \in ScenarioNodes : GraphDijkstra(start, end)

SpecScenario == InitGraph /\ [][NextScenario]_vars

\* requests to both trees, in any order
Next ==
    \/ \E value \in Keys :
          rbTree.nextID + avlTree.nextID < MaxTreeNodes /\ RBInsert(value)
    \/ \E value \in Keys : RBSearch(value)
    \/ \E value \in Keys : RBDelete(value)
    \/ \E value \in Keys :
          rbTree.nextID + avlTree.nextID < MaxTreeNodes /\ AVLInsert(value)
    \/ \E value \in Keys : AVLSearch(value)
    \/ \E value \in Keys : AVLDelete(value)

Spec == Init /\ [][Next]_vars

\* the ends of the shortest-path requests on the sample graph
SampleEnds == {"D", "F"}

\* Insert and shortest-path requests to the three structures, resets among them
NextReset ==
    \/ \E value \in Keys :
          rbTree.nextID + avlTree.nextID < MaxTreeNodes /\ RBInsert(value)
    \/ \E value \in Keys :
          rbTree.nextID + avlTree.nextID < MaxTreeNodes /\ AVLInsert(value)
    \/ \E end \in SampleEnds : GraphDijkstra("A", end)
    \/ RBReset
    \/ AVLReset
    \/ GraphReset

SpecReset == Init /\ [][NextReset]_vars

-----------------------------------------------------------------------------
(* The goroutines of a benchmark request (handlers/benchmark.go) *)

\* HandleBenchmarkSSE up to its loop: the request is bound, the channels are
\* made and the run goroutine is started
HandleBenchmarkSSE(c, size, structures, operation) ==
    /\ conns[c].state = "idle"
    /\ conns' = [conns EXCEPT ![c] = [@ EXCEPT !.state = "open", !.pc = "init",
                                               !.DataSize = size,
                                               !.Structures = structures,
                                               !.Operation = operation]]
    /\ UNCHANGED <<benchmarkRunner, runnerMutex, runners, stopChans>>
    /\ UNCHANGED opVars

\* the run goroutine reads benchmarkRunner under runnerMutex
RunGetRunner(c) ==
    /\ conns[c].pc = "init"
    /\ ~runnerMutex
    /\ conns' = [conns EXCEPT ![c] = [@ EXCEPT !.pc = "call",
                                               !.runner = benchmarkRunner]]
    /\ UNCHANGED <<benchmarkRunner, runnerMutex, runners, stopChans>>
    /\ UNCHANGED opVars

\* RunBenchmark from its entry to wg.Wait, or to its return when the runner
\* is running; data is what generateRandomData returns
RunBenchmark(c, data) ==
    /\ conns[c].pc = "call"
    /\ LET r == conns[c].runner
           e == RunBenchmark_enter(runners[r], stopChans.next)
       IN /\ runners' = [runners EXCEPT ![r] = e.r]
          /\ IF e.started
             THEN /\ stopChans' = [stopChans EXCEPT !.next = @ + 1]
                  /\ conns' = [conns EXCEPT ![c] =
                        [@ EXCEPT !.pc = "wait", !.started = TRUE, !.data = data,
                                  !.workers = [k \in DOMAIN conns[c].Structures |->
                                      [structure |-> conns[c].Structures[k],
                                       pc |-> "loop", i |-> 0,
                                       m |-> <<>>, probe |-> NULL]]]]
             ELSE /\ stopChans' = stopChans
                  /\ conns' = [conns EXCEPT ![c] = [@ EXCEPT !.pc = "return"]]
    /\ UNCHANGED <<benchmarkRunner, runnerMutex>>
    /\ UNCHANGED opVars

\* a step of the worker of Structures[k]: a pass of its loop, or the final
\* result
Worker(c, k) ==
    /\ conns[c].pc = "wait"
    /\ k \in DOMAIN conns[c].workers
    /\ conns[c].workers[k].pc # "done"
    /\ \E rnd \in rand_Intn(Max(1, probeBound(conns[c].workers[k],
                                                conns[c].Operation))) :
          LET r == runners[conns[c].runner]
              s == runSingleBenchmark(conns[c].workers[k], conns[c].Operation,
                                      conns[c].data,
                                      r.stopChan \in stopChans.closed, rnd)
          IN conns' = [conns EXCEPT ![c] =
                          [@ EXCEPT !.workers[k] = s.w,
                                    !.resultChan = Callback(@, s.out),
                                    !.delivered = @ \o s.out]]
    /\ UNCHANGED <<benchmarkRunner, runnerMutex, runners, stopChans>>
    /\ UNCHANGED opVars

\* wg.Wait returns and the deferred function of RunBenchmark clears running
RunBenchmarkReturn(c) ==
    /\ conns[c].pc = "wait"
    /\ \A k \in DOMAIN conns[c].workers : conns[c].workers[k].pc = "done"
    /\ runners' = [runners EXCEPT ![conns[c].runner].running = FALSE]
    /\ conns' = [conns EXCEPT ![c] = [@ EXCEPT !.pc = "return"]]
    /\ UNCHANGED <<benchmarkRunner, runnerMutex, stopChans>>
    /\ UNCHANGED opVars

\* the run goroutine ends: its deferred close(doneChan)
RunDone(c) ==
    /\ conns[c].pc = "return"
    /\ conns' = [conns EXCEPT ![c] = [@ EXCEPT !.pc = "exit", !.doneChan = TRUE]]
    /\ UNCHANGED <<benchmarkRunner, runnerMutex, runners, stopChans>>
    /\ UNCHANGED opVars

\* the client goes away: the context of its request is done
ClientGone(c) ==
    /\ conns[c].state = "open"
    /\ ~conns[c].clientGone
    /\ conns' = [conns EXCEPT ![c] = [@ EXCEPT !.clientGone = TRUE]]
    /\ UNCHANGED <<benchmarkRunner, runnerMutex, runners, stopChans>>
    /\ UNCHANGED opVars

\* the stream loop takes case <-clientGone: Stop, and the handler returns
\* (by a panic that the router recovers when Stop closes a closed channel)
StreamClientGone(c) ==
    /\ conns[c].state = "open"
    /\ conns[c].clientGone
    /\ stopChans' = [stopChans EXCEPT
                        !.closed = Stop(runners[benchmarkRunner], @).closed]
    /\ conns' = [conns EXCEPT ![c] = [@ EXCEPT !.state = "closed"]]
    /\ UNCHANGED <<benchmarkRunner, runnerMutex, runners>>
    /\ UNCHANGED opVars

\* the stream loop takes case result := <-resultChan
StreamResult(c) ==
    /\ conns[c].state = "open"
    /\ conns[c].resultChan # <<>>
    /\ LET res == Head(conns[c].resultChan)
           count == conns[c].completedCount + (IF res.Completed THEN 1 ELSE 0)
           last == res.Completed /\ count >= Len(conns[c].Structures)
       IN conns' = [conns EXCEPT ![c] =
                       [@ EXCEPT !.resultChan = Tail(@),
                                 !.written = Append(@, res),
                                 !.completedCount = count,
                                 !.complete = last,
                                 !.state = IF last THEN "closed" ELSE "open"]]
    /\ UNCHANGED <<benchmarkRunner, runnerMutex, runners, stopChans>>
    /\ UNCHANGED opVars

\* the stream loop takes case <-doneChan
StreamDone(c) ==
    /\ conns[c].state = "open"
    /\ conns[c].doneChan
    /\ conns' = [conns EXCEPT ![c] = [@ EXCEPT !.complete = TRUE,
                                               !.state = "closed"]]
    /\ UNCHANGED <<benchmarkRunner, runnerMutex, runners, stopChans>>
    /\ UNCHANGED opVars

\* HandleStopBenchmark: Stop and a new Runner, under runnerMutex; a panic of
\* Stop leaves runnerMutex locked
HandleStopBenchmark ==
    /\ ~runnerMutex
    /\ benchmarkRunner + 1 \in RunnerIds
    /\ LET s == Stop(runners[benchmarkRunner], stopChans.closed)
       IN IF s.panic
          THEN /\ runnerMutex' = TRUE
               /\ UNCHANGED <<benchmarkRunner, runners, stopChans>>
          ELSE /\ stopChans' = [next |-> stopChans.next + 1, closed |-> s.closed]
               /\ runners' = [r \in DOMAIN runners \cup {benchmarkRunner + 1} |->
                                 IF r = benchmarkRunner + 1
                                 THEN NewRunner(stopChans.next)
                                 ELSE runners[r]]
               /\ benchmarkRunner' = benchmarkRunner + 1
               /\ runnerMutex' = FALSE
    /\ UNCHANGED conns
    /\ UNCHANGED opVars

\* the steps of the goroutines of connection c, the elements of its dataset
\* taken among values
ConnStep(c, values) ==
    \/ RunGetRunner(c)
    \/ \E data \in generateRandomData(conns[c].DataSize, values) : RunBenchmark(c, data)
    \/ \E k \in 1..2 : Worker(c, k)
    \/ RunBenchmarkReturn(c)
    \/ RunDone(c)
    \/ ClientGone(c)
    \/ StreamClientGone(c)
    \/ StreamResult(c)
    \/ StreamDone(c)

\* one benchmark request, of any size and any list of kinds, with stop
\* requests and the client going away
NextBenchmark ==
    \/ \E size \in BenchSizes, structures \in BenchStructures :
          HandleBenchmarkSSE(1, size, structures, "insert")
    \/ ConnStep(1, OneValue)
    \/ HandleStopBenchmark

SpecBenchmark == Init /\ [][NextBenchmark]_vars

\* the scheduler runs every goroutine that can take a step
FairBenchmark ==
    /\ WF_vars(RunGetRunner(1))
    /\ WF_vars(\E data \in generateRandomData(conns[1].DataSize, OneValue) :
                   RunBenchmark(1, data))
    /\ WF_vars(\E k \in 1..2 : Worker(1, k))
    /\ WF_vars(RunBenchmarkReturn(1))
    /\ WF_vars(RunDone(1))

SpecBenchmarkFair == SpecBenchmark /\ FairBenchmark

\* benchmark requests on every connection, each for one kind and one element
NextBenchmarks ==
    \/ \E c \in Conns : HandleBenchmarkSSE(c, 1, <<"hashmap">>, "insert")
    \/ \E c \in Conns : ConnStep(c, OneValue)
    \/ HandleStopBenchmark

SpecBenchmarks == Init /\ [][NextBenchmarks]_vars

\* the scheduler runs every goroutine of every connection that can take a step
FairBenchmarks ==
    \A c \in Conns :
        /\ WF_vars(RunGetRunner(c))
        /\ WF_vars(\E data \in generateRandomData(conns[c].DataSize, OneValue) :
                       RunBenchmark(c, data))
        /\ WF_vars(\E k \in 1..2 : Worker(c, k))
        /\ WF_vars(RunBenchmarkReturn(c))
        /\ WF_vars(RunDone(c))

SpecBenchmarksFair == SpecBenchmarks /\ FairBenchmarks

\* the stream loop of a handler goes on when one of its cases is ready; the
\* client goes away or stays
FairStreams ==
    \A c \in Conns :
        WF_vars(StreamClientGone(c) \/ StreamResult(c) \/ StreamDone(c))

SpecStreamsFair == SpecBenchmarks /\ FairBenchmarks /\ FairStreams

\* one benchmark request of either operation for a hash map or a B-tree, on
\* any dataset of SearchSize elements among RandValues
NextSearch ==
    \/ \E structure \in {"hashmap", "btree"}, operation \in {"insert", "search"} :
          HandleBenchmarkSSE(1, SearchSize, <<structure>>, operation)
    \/ ConnStep(1, RandValues)
    \/ HandleStopBenchmark

SpecSearch == Init /\ [][NextSearch]_vars

-----------------------------------------------------------------------------
(* What the claims speak of *)

\* the nodes of the red-black tree below n, n included
RECURSIVE RB_subtree(_, _)
RB_subtree(t, n) ==
    IF n = t.NIL THEN {}
    ELSE {n} \cup RB_subtree(t, t.node[n].Left) \cup RB_subtree(t, t.node[n].Right)

\* the number of black nodes on every path from n down to the sentinel,
\* or -1 when two such paths differ in it
RECURSIVE RB_blackHeight(_, _)
RB_blackHeight(t, n) ==
    IF n = t.NIL THEN 0
    ELSE LET l == RB_blackHeight(t, t.node[n].Left)
             r == RB_blackHeight(t, t.node[n].Right)
         IN IF l = -1 \/ r = -1 \/ l # r THEN -1
            ELSE l + (IF t.node[n].Color = Black THEN 1 ELSE 0)

RootIsBlack(t) == t.node[t.Root].Color = Black

NoRedRed(t) ==
    \A n \in RB_subtree(t, t.Root) :
        t.node[n].Color = Red =>
            /\ t.node[t.node[n].Left].Color # Red
            /\ t.node[t.node[n].Right].Color # Red

EqualBlackCount(t) == RB_blackHeight(t, t.Root) # -1

RedBlackProperties(t) == RootIsBlack(t) /\ NoRedRed(t) /\ EqualBlackCount(t)

\* every node ever created is still allocated: no Delete has freed one
RBOnlyInserted == \A n \in 0..(rbTree.nextID - 1) : n \in DOMAIN rbTree.node

\* every node ever created is still in the tree: no Delete has removed one
AVLOnlyInserted == Cardinality(AVL_reachable(avlTree, avlTree.Root)) = avlTree.nextID

RBValues(t) == {t.node[n].Value : n \in RB_subtree(t, t.Root)}

AVLValues(t) == {t.node[n].Value : n \in AVL_reachable(t, t.Root)}

\* balance factor in [-1, 1] and stored height 1 + max of the children's, everywhere
AVLProperties(t) ==
    \A n \in AVL_reachable(t, t.Root) :
        /\ AVL_getBalance(t, n) \in {-1, 0, 1}
        /\ t.node[n].Height
             = 1 + Max(height(t, t.node[n].Left), height(t, t.node[n].Right))

StepTypes(steps) == {steps[i].Type : i \in DOMAIN steps}

StepDescriptions(steps) == {steps[i].Description : i \in DOMAIN steps}

Rotations == {StepRotateLeft, StepRotateRight}

-----------------------------------------------------------------------------
(* The claims *)

\* C1: after every Insert into a red-black tree that has only been inserted
\* into, the root is black, no red node has a red child and every path from
\* the root to the sentinel holds the same number of black nodes.
C1_InsertKeepsRedBlack ==
    (req.Structure = "rbtree" /\ req.Operation = "insert" /\ RBOnlyInserted)
        => RedBlackProperties(rbTree)

\* an Insert of the fifth key in a row that recolored (case 1) and rotated
C1_Witness ==
    /\ req.Structure = "rbtree" /\ req.Operation = "insert" /\ RBOnlyInserted
    /\ rbTree.nextID >= 4
    /\ StepTypes(result.Steps) \cap Rotations # {}
    /\ StepColorChange \in StepTypes(result.Steps)

\* C2: after every Insert into an AVL tree that has only been inserted into,
\* every balance factor is in [-1, 1] and every stored height is 1 + the
\* maximum of the heights of the children, an empty subtree having height 0.
C2_InsertKeepsAVL ==
    (req.Structure = "avltree" /\ req.Operation = "insert" /\ AVLOnlyInserted)
        => AVLProperties(avlTree)

\* an Insert that rebalanced with a double rotation
C2_Witness ==
    /\ req.Structure = "avltree" /\ req.Operation = "insert" /\ AVLOnlyInserted
    /\ StepDescriptions(result.Steps) \cap {"LR case", "RL case"} # {}
    /\ Rotations \subseteq StepTypes(result.Steps)

\* C8: after every Insert and Delete on the red-black tree the root is black,
\* no red node has a red child, every root-to-sentinel path holds the same
\* number of black nodes, and the sentinel is black.
C8_RedBlackInvariant ==
    RedBlackProperties(rbTree) /\ rbTree.node[rbTree.NIL].Color = Black

\* a Delete that removed a black node and repaired the tree with a rotation
C8_Witness ==
    /\ req.Structure = "rbtree" /\ req.Operation = "delete" /\ result.Success
    /\ "black node removed, fixup needed" \in StepDescriptions(result.Steps)
    /\ StepTypes(result.Steps) \cap Rotations # {}

\* C9: after every Insert and Delete on the AVL tree every balance factor is
\* in [-1, 1] and every stored height is 1 + the maximum of the heights of
\* the children.
C9_AVLInvariant == AVLProperties(avlTree)

\* a Delete that rebalanced with a rotation
C9_Witness ==
    /\ req.Structure = "avltree" /\ req.Operation = "delete" /\ result.Success
    /\ StepTypes(result.Steps) \cap Rotations # {}

\* the tree a request names, as the client sees it
Snapshot(s, rb, avl) ==
    IF s = "rbtree" THEN RB_getTreeSnapshot(rb) ELSE AVL_getTreeSnapshot(avl)

\* the keys the tree a request names holds
StoredValues(s) == IF s = "rbtree" THEN RBValues(rbTree) ELSE AVLValues(avlTree)

\* the steps of a trace that have one of the types
StepsOfType(steps, types) == SelectSeq(steps, LAMBDA st : st.Type \in types)

\* no key appears in two nodes of a snapshot
NoDuplicateKeys(snapshot) ==
    \A i, j \in DOMAIN snapshot : snapshot[i].Value = snapshot[j].Value => i = j

Restructuring == {StepRotateLeft, StepRotateRight, StepColorChange, StepRebalance}

\* C3: on either tree, Search(k) reports success exactly when k was inserted
\* and not deleted since.
C3_SearchFoundIffLive ==
    req.Operation = "search" => (result.Success <=> req.Value \in live[req.Structure])

\* C4: on either tree, a Search(k) that immediately follows a Delete(k)
\* reports failure.
C4_DeleteThenSearchNotFound ==
    [][(/\ req.Operation = "delete"
        /\ req'.Operation = "search"
        /\ req'.Structure = req.Structure
        /\ req'.Value = req.Value) => ~result'.Success]_vars

\* C5: on either tree, Delete(k) of a key the tree does not hold reports
\* failure, its trace ends in a NotFound step, and the snapshot of the tree
\* after the call is the snapshot before it.
C5_DeleteAbsentKey ==
    [][(/\ req'.Operation = "delete"
        /\ req'.Value \notin StoredValues(req'.Structure))
          => /\ ~result'.Success
             /\ result'.Steps # <<>>
             /\ result'.Steps[Len(result'.Steps)].Type = StepNotFound
             /\ Snapshot(req'.Structure, rbTree', avlTree')
                  = Snapshot(req'.Structure, rbTree, avlTree)
             /\ result'.FinalTree = Snapshot(req'.Structure, rbTree, avlTree)]_vars

\* each tree has answered a Delete of a key it did not hold while holding others
C5_Witness ==
    /\ req.Operation = "delete" /\ ~result.Success
    /\ RBValues(rbTree) # {} /\ AVLValues(avlTree) # {}
    /\ rbTree.steps # <<>> /\ rbTree.steps[Len(rbTree.steps)].Type = StepNotFound
    /\ avlTree.steps # <<>> /\ avlTree.steps[Len(avlTree.steps)].Type = StepNotFound

\* C6: on either tree, Insert(k) of a key the tree already holds leaves the
\* tree as it was: its trace has Compare steps, the last of them at the node
\* that holds k, no rotation, recoloring or rebalancing step, and afterwards
\* no two nodes of the tree hold the same key.
C6_DuplicateInsertNoOp ==
    [][(/\ req'.Operation = "insert"
        /\ req'.Value \in StoredValues(req'.Structure))
          => LET compares == StepsOfType(result'.Steps, {StepCompare})
                 before   == Snapshot(req'.Structure, rbTree, avlTree)
             IN /\ compares # <<>>
                /\ \E i \in DOMAIN before :
                      /\ before[i].ID = compares[Len(compares)].NodeID
                      /\ before[i].Value = req'.Value
                /\ StepTypes(result'.Steps) \cap Restructuring = {}
                /\ Snapshot(req'.Structure, rbTree', avlTree') = before
                /\ NoDuplicateKeys(result'.FinalTree)]_vars

\* the red-black tree has been built by Insert(10), Insert(20), Insert(30):
\* three nodes were created, with these keys in this order, and none deleted
Inserted102030 ==
    /\ req.Structure = "rbtree" /\ req.Operation = "insert" /\ req.Value = 30
    /\ rbTree.nextID = 3 /\ RBOnlyInserted
    /\ rbTree.node[0].Value = 10 /\ rbTree.node[1].Value = 20

\* C7 as the specification states it: after inserting 10, 20, 30 the root is
\* 20 and black, its left child is 10 and black, its right child 30 and black.
C7_ChildrenBlack ==
    Inserted102030 =>
        LET root == rbTree.node[rbTree.Root] IN
        /\ root.Value = 20 /\ root.Color = Black
        /\ rbTree.node[root.Left].Value = 10 /\ rbTree.node[root.Left].Color = Black
        /\ rbTree.node[root.Right].Value = 30 /\ rbTree.node[root.Right].Color = Black

\* C7: after inserting 10, 20, 30 into an empty red-black tree the root is 20
\* and black, its left child is 10 and red, its right child is 30 and red:
\* the third Insert recolors parent and grandparent and rotates left (case 3).
C7_ChildrenRed ==
    Inserted102030 =>
        LET root == rbTree.node[rbTree.Root] IN
        /\ root.Value = 20 /\ root.Color = Black
        /\ rbTree.node[root.Left].Value = 10 /\ rbTree.node[root.Left].Color = Red
        /\ rbTree.node[root.Right].Value = 30 /\ rbTree.node[root.Right].Color = Red
        /\ rbTree.node[root.Left].Left = rbTree.NIL
        /\ rbTree.node[root.Left].Right = rbTree.NIL
        /\ rbTree.node[root.Right].Left = rbTree.NIL
        /\ rbTree.node[root.Right].Right = rbTree.NIL

\* the third of the three Inserts has returned, having rotated left
C7_Witness ==
    /\ Inserted102030
    /\ StepRotateLeft \in StepTypes(result.Steps)
    /\ result.Success

\* a + b, held at MaxInt32 when the sum would pass it
SatAdd(a, b) == IF a > MaxInt32 - b THEN MaxInt32 ELSE a + b

\* the weights of the walks of g along path, one for every choice among
\* parallel edges: empty when two consecutive nodes of path have no edge
RECURSIVE PathWeights(_, _)
PathWeights(g, path) ==
    IF Len(path) <= 1 THEN {0}
    ELSE LET edges == g.Nodes[path[1]]
             first == {edges[i].Weight : i \in {j \in DOMAIN edges : edges[j].To = path[2]}}
         IN {SatAdd(w, rest) : w \in first, rest \in PathWeights(g, Tail(path))}

\* the simple paths of g from a to b
SimplePaths(g, a, b) ==
    LET N == DOMAIN g.Nodes IN
    {p \in UNION {[1..n -> N] : n \in 1..Cardinality(N)} :
        /\ p[1] = a /\ p[Len(p)] = b
        /\ \A i, j \in DOMAIN p : p[i] = p[j] => i = j
        /\ PathWeights(g, p) # {}}

Connected(g, a, b) == SimplePaths(g, a, b) # {}

PositiveWeights(g) ==
    \A id \in DOMAIN g.Nodes : \A i \in DOMAIN g.Nodes[id] : g.Nodes[id][i].Weight > 0

\* Dijkstra has answered a request for two connected nodes of the graph
DijkstraOnConnectedPair ==
    /\ req.Structure = "graph" /\ req.Operation = "shortest_path"
    /\ req.Start \in DOMAIN graph.Nodes /\ req.End \in DOMAIN graph.Nodes
    /\ PositiveWeights(graph)
    /\ Connected(graph, req.Start, req.End)

\* C10: for a graph with positive weights and a connected pair (start, end),
\* Dijkstra succeeds; its path begins at start, ends at end and follows edges
\* of the graph; the weights of its edges sum to the reported distance; and
\* no simple path from start to end weighs less than that distance.
C10_DijkstraShortestPath ==
    DijkstraOnConnectedPair =>
        /\ result.Success
        /\ LET last == result.Steps[Len(result.Steps)]
               path == last.Description[2]
               dist == result.Message[2]
           IN /\ last.Type = StepComplete
              /\ path # <<>>
              /\ path[1] = req.Start /\ path[Len(path)] = req.End
              /\ dist \in PathWeights(graph, path)
              /\ \A p \in SimplePaths(graph, req.Start, req.End) :
                    \A w \in PathWeights(graph, p) : dist <= w

\* Dijkstra has answered a request for two different ids that no path of the
\* graph joins (an id the graph does not hold is joined to nothing)
DijkstraOnDisconnectedPair ==
    /\ req.Structure = "graph" /\ req.Operation = "shortest_path"
    /\ req.Start # req.End
    /\ ~Connected(graph, req.Start, req.End)

\* C11: Dijkstra between two nodes that no path joins reports failure; its
\* trace ends in a NotFound step and has no Complete step; the result carries
\* no final graph and no step marks a node or an edge as part of a path.
C11_DisconnectedNotFound ==
    DijkstraOnDisconnectedPair =>
        /\ ~result.Success
        /\ result.Steps # <<>>
        /\ result.Steps[Len(result.Steps)].Type = StepNotFound
        /\ StepComplete \notin StepTypes(result.Steps)
        /\ result.FinalGraph = NULL
        /\ \A i \in DOMAIN result.Steps :
              /\ \A id \in DOMAIN result.Steps[i].GraphNodes :
                    ~result.Steps[i].GraphNodes[id].InPath
              /\ \A from \in DOMAIN result.Steps[i].GraphEdges :
                    \A j \in DOMAIN result.Steps[i].GraphEdges[from] :
                       ~result.Steps[i].GraphEdges[from][j].InPath

\* Dijkstra has failed between two nodes of a graph that has an edge, after
\* visiting the start node and comparing along its edges
C11_Witness ==
    /\ DijkstraOnDisconnectedPair
    /\ req.Start \in DOMAIN graph.Nodes /\ req.End \in DOMAIN graph.Nodes
    /\ graph.Nodes[req.Start] # <<>>
    /\ ~result.Success
    /\ StepUpdateDist \in StepTypes(result.Steps)

\* the scenario's graph, whole
ScenarioBuilt ==
    /\ DOMAIN graph.Nodes = ScenarioNodes
    /\ \A e \in ScenarioEdges : HasEdge(graph, e)

\* C12: on the graph with nodes A, B, C, D and edges A-B(4), A-C(2), C-B(1),
\* B-D(5), C-D(8), in whatever order they were added, Dijkstra(A, D) succeeds
\* with distance 8 and path A, C, B, D.
C12_ScenarioDistance8 ==
    (/\ ScenarioBuilt
     /\ req.Structure = "graph" /\ req.Operation = "shortest_path"
     /\ req.Start = "A" /\ req.End = "D")
        => /\ result.Success
           /\ result.Message[2] = 8
           /\ result.Steps[Len(result.Steps)].Type = StepComplete
           /\ result.Steps[Len(result.Steps)].Description[2] = <<"A", "C", "B", "D">>
           /\ result.FinalGraph.Nodes["D"].Distance = 8
           /\ \A id \in ScenarioNodes : result.FinalGraph.Nodes[id].InPath

\* Dijkstra(A, D) has answered on the whole graph of the scenario
C12_Witness ==
    /\ ScenarioBuilt
    /\ req.Structure = "graph" /\ req.Operation = "shortest_path"
    /\ req.Start = "A" /\ req.End = "D"
    /\ result.Success
    /\ Len(graph.Nodes["C"]) = 3

\* the results of a sequence that are about one structure kind
OfKind(results, kind) == SelectSeq(results, LAMBDA res : res.Structure = kind)

\* the completed results of a sequence
CompletedOf(results) == SelectSeq(results, LAMBDA res : res.Completed)

\* no kind is requested twice
DistinctKinds(structures) ==
    \A i, j \in DOMAIN structures : structures[i] = structures[j] => i = j

\* RunBenchmark of connection c has returned from a run it started
RunReturned(c) == conns[c].started /\ conns[c].pc \in {"return", "exit"}

\* the stop channel of the run of connection c has been closed
RunStopped(c) == runners[conns[c].runner].stopChan \in stopChans.closed

\* C13: a run that has started returns, and when it was not stopped its
\* callback has received, for every requested structure, exactly one
\* completed result, with progress 100.
C13_RunCompletes ==
    /\ \A c \in {1} : conns[c].started ~> RunReturned(c)
    /\ [](\A c \in {1} :
            (RunReturned(c) /\ ~RunStopped(c)) =>
                \A kind \in BenchKinds :
                    LET done == CompletedOf(OfKind(conns[c].delivered, kind))
                    IN /\ Len(done) = Cardinality({k \in DOMAIN conns[c].Structures :
                                                      conns[c].Structures[k] = kind})
                       /\ \A i \in DOMAIN done : done[i].Progress = 100)

\* a run for two kinds and three elements has returned without a stop
C13_Witness ==
    /\ RunReturned(1) /\ ~RunStopped(1)
    /\ conns[1].Structures = <<"hashmap", "rbtree">>
    /\ conns[1].DataSize = 3
    /\ Len(CompletedOf(conns[1].delivered)) = 2

\* C14: a worker that leaves its loop on the stop signal, before it has
\* processed every element, delivers no completed result.
C14_StoppedWorkerSilent ==
    \A c \in Conns : \A k \in DOMAIN conns[c].workers :
        conns[c].workers[k].pc = "done" => conns[c].workers[k].i = conns[c].DataSize

\* the connections whose run has a worker that has not finished
LiveRuns ==
    {c \in Conns : \E k \in DOMAIN conns[c].workers : conns[c].workers[k].pc # "done"}

\* C15: at most one run has live workers.
C15_SingleFlight == Cardinality(LiveRuns) <= 1

\* C16: a RunBenchmark call that finds its runner running returns at once and
\* changes neither the runner nor the stop channels; the connection that made
\* it has no worker and its callback is never called.
C16_ActiveRunRejected ==
    /\ [][\A c \in Conns :
            (/\ conns[c].pc = "call"
             /\ runners[conns[c].runner].running
             /\ conns'[c].pc # "call")
               => /\ conns'[c].pc = "return"
                  /\ runners' = runners
                  /\ stopChans' = stopChans
                  /\ \A d \in Conns \ {c} : conns'[d] = conns[d]]_vars
    /\ [](\A c \in Conns :
            ~conns[c].started => /\ conns[c].workers = <<>>
                                 /\ conns[c].delivered = <<>>
                                 /\ conns[c].resultChan = <<>>)

\* a RunBenchmark call has been rejected while the run of another connection
\* was waiting for its workers
C16_Witness ==
    \E c, d \in Conns :
        /\ conns[c].pc \in {"return", "exit"} /\ ~conns[c].started
        /\ conns[d].pc = "wait" /\ conns[d].runner = conns[c].runner
        /\ runners[conns[d].runner].running

\* C17: a completed result the callback is called with goes into the
\* delivery channel.
C17_CompletedNeverDropped ==
    [][\A c \in Conns :
         (/\ Len(conns'[c].delivered) > Len(conns[c].delivered)
          /\ conns'[c].delivered[Len(conns'[c].delivered)].Completed)
            => conns'[c].resultChan
                 = Append(conns[c].resultChan,
                          conns'[c].delivered[Len(conns'[c].delivered)])]_vars

\* C18: when the handler of a connected client has sent the completion event,
\* no result is left in the delivery channel and a completed result of every
\* requested kind has been written to the client.
C18_CompleteAfterAllWritten ==
    \A c \in Conns :
        (conns[c].complete /\ ~conns[c].clientGone) =>
            /\ conns[c].resultChan = <<>>
            /\ \A k \in DOMAIN conns[c].Structures :
                  CompletedOf(OfKind(conns[c].written, conns[c].Structures[k])) # <<>>

C20_ResetOnlyItsKind ==
    [][req'.Operation = "reset" =>
         /\ req'.Structure = "rbtree" =>
               /\ rbTree' = NewRedBlackTree /\ rbTree'.nextID = 0
               /\ rbTree'.Root = rbTree'.NIL
               /\ avlTree' = avlTree /\ graph' = graph
               /\ \A k \in Keys :
                     LET res == RB_Search(rbTree', k).res
                     IN ~res.Success /\ res.Steps[Len(res.Steps)].Type = StepNotFound
         /\ req'.Structure = "avltree" =>
               /\ avlTree' = NewAVLTree /\ avlTree'.nextID = 0
               /\ avlTree'.Root = NULL
               /\ rbTree' = rbTree /\ graph' = graph
               /\ \A k \in Keys :
                     LET res == AVL_Search(avlTree', k).res
                     IN ~res.Success /\ res.Steps[Len(res.Steps)].Type = StepNotFound
         /\ req'.Structure = "graph" =>
               /\ graph' = CreateSampleGraph
               /\ rbTree' = rbTree /\ avlTree' = avlTree
         /\ result'.Success /\ result'.Steps = <<>>]_vars

\* the red-black tree has been reset while the AVL tree held keys and the
\* graph held the trace of a search
C20_Witness ==
    /\ req.Operation = "reset" /\ req.Structure = "rbtree"
    /\ rbTree = NewRedBlackTree
    /\ AVLValues(avlTree) # {}
    /\ graph.steps # <<>>

-----------------------------------------------------------------------------
(* Traces: what a returned trace holds and how it reads later *)

Terminal == {StepComplete, StepFound, StepNotFound}

\* a trace holds one terminal step, its last: the steps of a call before
\* would put an earlier terminal step in front
OwnStepsOnly(steps) ==
    \A i \in DOMAIN steps : steps[i].Type \in Terminal <=> i = Len(steps)

\* The trace the AVL tree returned last, t.steps, read when the tree is tn:
\* NodeID of a step is &node.ID, so it reads what the ID field holds then.  A
\* node the tree has dropped is written by nobody.
AVL_readSteps(t, tn) ==
    [i \in DOMAIN t.steps |->
        [t.steps[i] EXCEPT !.NodeID =
            IF @ = NULL THEN NULL
            ELSE IF @ \in DOMAIN tn.node THEN tn.node[@].ID ELSE t.node[@].ID]]

\* C21: the trace a call returns holds the steps of that call only, and the
\* trace an earlier call on the same structure returned reads the same after
\* a later call.
C21_TraceOwnedByCall ==
    [][/\ result'.Steps # <<>> => OwnStepsOnly(result'.Steps)
       /\ AVL_readSteps(avlTree, avlTree') = AVL_readSteps(avlTree, avlTree)]_vars

\* the ids of the nodes a snapshot shows
SnapshotIDs(snapshot) == {snapshot[i].ID : i \in DOMAIN snapshot}

\* the snapshot shows node a with b as its child on the side f
ShowsChild(snapshot, a, f, b) ==
    \E i \in DOMAIN snapshot : snapshot[i].ID = a /\ snapshot[i][f] = b

\* the step shows the tree after the action it names
ShowsStateAfter(st) ==
    /\ st.Type = StepInsert /\ st.NodeID # NULL
       /\ st.Description # "create new node (red)"
          => st.NodeID \in SnapshotIDs(st.TreeState)
    /\ st.Type = StepDelete /\ st.Description \in {"no left child", "no right child"}
          => st.NodeID \notin SnapshotIDs(st.TreeState)
    /\ st.Type = StepRotateLeft
          => ShowsChild(st.TreeState, st.Highlight[2], "LeftID", st.Highlight[1])
    /\ st.Type = StepRotateRight
          => ShowsChild(st.TreeState, st.Highlight[1], "RightID", st.Highlight[2])

\* C22: in the trace of Insert and Delete on either tree every step shows the
\* tree after its action: the step of an insertion shows the node linked, the
\* step of a replacement by a child does not show the node any more, and a
\* rotation step shows the rotated nodes as child and parent.
C22_SnapshotAfterAction ==
    req.Operation \in {"insert", "delete"} =>
        \A i \in DOMAIN result.Steps : ShowsStateAfter(result.Steps[i])

\* the Rebalance steps of the fixup cases that recolor and then rotate:
\* case 3 of insertFixup, cases 1, 3 and 4 of deleteFixup, and their mirrors
RecolorRotateCases ==
    {"case 3: uncle black, left child", "case 3 (mirror): uncle black, right child",
     "case 1: sibling red", "case 1 (mirror): sibling red",
     "case 3: sibling black, left red, right black",
     "case 3 (mirror): sibling black, right red, left black",
     "case 4: sibling black, right red", "case 4 (mirror): sibling black, left red"}

\* case 2 of insertFixup rotates and does not recolor
RotateOnlyCases ==
    {"case 2: uncle black, right child", "case 2 (mirror): uncle black, left child"}

\* steps[i] opens a case that recolors and rotates
OpensRecolorRotate(steps, i) ==
    steps[i].Type = StepRebalance /\ steps[i].Description \in RecolorRotateCases

\* C23: in a red-black trace the Rebalance step of a case that recolors and
\* rotates is followed by the Recolor step and then by the Rotate step of the
\* case, and every Rotate step comes after the Recolor step of its case (or,
\* in insert case 2, which does not recolor, after its Rebalance step).
C23_RebalanceRecolorRotate ==
    req.Structure = "rbtree" =>
        LET steps == result.Steps IN
        /\ \A i \in DOMAIN steps :
              OpensRecolorRotate(steps, i) =>
                  /\ i + 2 <= Len(steps)
                  /\ steps[i + 1].Type = StepColorChange
                  /\ steps[i + 2].Type \in Rotations
        /\ \A j \in DOMAIN steps :
              steps[j].Type \in Rotations =>
                  \/ /\ j > 2
                     /\ steps[j - 1].Type = StepColorChange
                     /\ OpensRecolorRotate(steps, j - 2)
                  \/ /\ j > 1
                     /\ steps[j - 1].Type = StepRebalance
                     /\ steps[j - 1].Description \in RotateOnlyCases

\* a Delete has gone through two cases that recolor and rotate, case 3 and
\* then case 4 of deleteFixup or their mirrors
C23_Witness ==
    /\ req.Structure = "rbtree" /\ req.Operation = "delete"
    /\ \E i, j \in DOMAIN result.Steps :
          /\ i < j
          /\ OpensRecolorRotate(result.Steps, i)
          /\ OpensRecolorRotate(result.Steps, j)

\* the nodes that two snapshots show in different colors
ColorChanged(before, after) ==
    {before[i].ID : i \in {k \in DOMAIN before :
        \E j \in DOMAIN after :
            after[j].ID = before[k].ID /\ after[j].Color # before[k].Color}}

\* C24: in the trace of a red-black Insert or Delete, when a node that two
\* consecutive steps show has changed its color between them, the later step
\* is a Recolor (color_change) step.
C24_ColorChangeReported ==
    req.Structure = "rbtree" /\ req.Operation \in {"insert", "delete"} =>
        \A i \in 1..(Len(result.Steps) - 1) :
            ColorChanged(result.Steps[i].TreeState, result.Steps[i + 1].TreeState) # {}
                => result.Steps[i + 1].Type = StepColorChange

\* the entries of every snapshot of an OperationResult
ShownNodes(res) ==
    UNION {{res.Steps[i].TreeState[k] : k \in DOMAIN res.Steps[i].TreeState} :
              i \in DOMAIN res.Steps}
    \cup {res.FinalTree[k] : k \in DOMAIN res.FinalTree}

\* A request went from a tree that showed `before` and had the counter nextID
\* to the result res with the counter nextIDAfter: an id the tree showed keeps
\* its key, an id it did not show is the id of the node this Insert made, not
\* below the counter, and the counter has passed every id.
IdsKept(before, nextID, res, nextIDAfter, value) ==
    /\ nextIDAfter >= nextID
    /\ \A e \in ShownNodes(res) :
          /\ e.ID < nextIDAfter
          /\ \A k \in DOMAIN before : before[k].ID = e.ID => before[k].Value = e.Value
          /\ e.ID \notin SnapshotIDs(before) =>
                /\ e.ID >= nextID
                /\ e.Value = value
                /\ nextIDAfter = nextID + 1

\* C25: in the life of a tree ids are given in increasing order and never
\* given twice: the node an Insert makes has an id above every id given
\* before, also after deletions, and an id shown in a snapshot keeps the key
\* it was given with.
C25_IdsIncreasingAndBound ==
    [][/\ req'.Structure = "rbtree" =>
             IdsKept(RB_getTreeSnapshot(rbTree), rbTree.nextID, result',
                     rbTree'.nextID, req'.Value)
       /\ req'.Structure = "avltree" =>
             IdsKept(AVL_getTreeSnapshot(avlTree), avlTree.nextID, result',
                     avlTree'.nextID, req'.Value)]_vars

\* an AVL Delete has put the id and the key of the successor into the node
\* with two children
C25_Witness ==
    /\ req.Structure = "avltree" /\ req.Operation = "delete"
    /\ "replaced by successor" \in StepDescriptions(result.Steps)

-----------------------------------------------------------------------------
(* The trace of Dijkstra *)

\* Dijkstra has answered the request
DijkstraAnswered == req.Structure = "graph" /\ req.Operation = "shortest_path"

\* the positions of the Select-Node steps of the node
SelectionsOf(steps, node) ==
    {i \in DOMAIN steps : steps[i].Type = StepSelectNode /\ steps[i].Description[2] = node}

\* the positions of the Update-Distance steps that push the node
PushesOf(steps, node) ==
    {i \in DOMAIN steps : steps[i].Type = StepUpdateDist /\ steps[i].Description[2] = node}

\* C26: in the trace of one Dijkstra call every node is selected, by a
\* Select-Node step, at most once, however often it was pushed.
C26_SelectedAtMostOnce ==
    DijkstraAnswered =>
        \A node \in DOMAIN graph.Nodes \cup {req.Start} :
            Cardinality(SelectionsOf(result.Steps, node)) <= 1

\* a node was pushed twice and selected once, and the search went on until
\* the queue was empty, so the second entry of the node was popped and skipped
C26_Witness ==
    /\ DijkstraAnswered
    /\ ~result.Success
    /\ \E node \in DOMAIN graph.Nodes :
          /\ Cardinality(PushesOf(result.Steps, node)) >= 2
          /\ Cardinality(SelectionsOf(result.Steps, node)) = 1

\* Distance of a node snapshot as the distance map holds it
DistanceOf(snapshot) == IF snapshot.Distance = NULL THEN MaxInt32 ELSE snapshot.Distance

\* the adjacency entries of the node selected at step i that lead to a node
\* not visited then
OpenEntries(g, steps, i) ==
    SelectSeq(MapGet(g.Nodes, steps[i].Description[2], <<>>),
              LAMBDA e : ~steps[i].GraphNodes[e.To].Visited)

\* step cur, recorded after step prev, is the one step of the entry e of the
\* selected node u
RelaxStep(prev, cur, u, e) ==
    IF e.Weight < DistanceOf(prev.GraphNodes[e.To]) - DistanceOf(prev.GraphNodes[u])
    THEN /\ cur.Type = StepUpdateDist
         /\ cur.Description[2] = e.To /\ cur.Description[4] = u
         /\ cur.Description[3] = DistanceOf(prev.GraphNodes[u]) + e.Weight
         /\ cur.GraphNodes[e.To].Distance = cur.Description[3]
         /\ \A id \in DOMAIN cur.GraphNodes \ {e.To} :
               cur.GraphNodes[id].Distance = prev.GraphNodes[id].Distance
    ELSE /\ cur.Type = StepCompare
         /\ cur.Description[2] = u /\ cur.Description[3] = e.To
         /\ \A id \in DOMAIN cur.GraphNodes :
               cur.GraphNodes[id].Distance = prev.GraphNodes[id].Distance

\* C27: after the Select-Node step of a node other than the end, the trace
\* has one step for each adjacency entry of the node that leads to a node
\* not yet visited, in the order of the entries and no other: an
\* Update-Distance step with the new distance when it is strictly smaller
\* than the neighbor's distance, else a Compare step that leaves the
\* distances as they were.
C27_OneStepPerOpenEdge ==
    DijkstraAnswered =>
        LET steps == result.Steps IN
        \A i \in DOMAIN steps :
            steps[i].Type = StepSelectNode /\ steps[i].Description[2] # req.End =>
                LET entries == OpenEntries(graph, steps, i) IN
                /\ i + Len(entries) <= Len(steps)
                /\ \A j \in DOMAIN entries :
                      RelaxStep(steps[i + j - 1], steps[i + j],
                                steps[i].Description[2], entries[j])
                /\ i + Len(entries) < Len(steps) =>
                      steps[i + Len(entries) + 1].Type \notin {StepUpdateDist, StepCompare}

\* a search has relaxed two entries towards the same neighbor, the first with
\* an Update-Distance step and the second, of equal distance, with a Compare
\* step
C27_Witness ==
    /\ DijkstraAnswered
    /\ \E i \in 1..(Len(result.Steps) - 1) :
          /\ result.Steps[i].Type = StepUpdateDist
          /\ result.Steps[i + 1].Type = StepCompare
          /\ result.Steps[i + 1].Description[3] = result.Steps[i].Description[2]

\* what a caller observes of a Dijkstra result: success, distance (in the
\* message), path, and the kind of every step with the node it selects or the
\* edge it relaxes (in the description)
Observed(res) ==
    [Success |-> res.Success, Message |-> res.Message,
     Steps |-> [i \in DOMAIN res.Steps |->
                   <<res.Steps[i].Type, res.Steps[i].Description>>]]

\* C28: Dijkstra is deterministic: the same (start, end) on the same graph
\* gives the same success flag, distance, path and sequence of step kinds
\* with the same selected nodes and relaxed edges, whatever order the range
\* over the node map takes, also when queue entries have equal priorities.
C28_DijkstraDeterministic ==
    DijkstraAnswered =>
        \A order \in RangeOrders(graph.Nodes) :
            Observed(Dijkstra(graph, req.Start, req.End, order).res) = Observed(result)

\* two nodes were pushed with the same priority and were in the queue
\* together: no node was selected between the two pushes
C28_Witness ==
    /\ DijkstraAnswered
    /\ \E i, j \in DOMAIN result.Steps :
          /\ i < j
          /\ result.Steps[i].Type = StepUpdateDist /\ result.Steps[j].Type = StepUpdateDist
          /\ result.Steps[i].Description[2] # result.Steps[j].Description[2]
          /\ result.Steps[i].Description[3] = result.Steps[j].Description[3]
          /\ \A k \in i..j : result.Steps[k].Type # StepSelectNode

-----------------------------------------------------------------------------
(* The stop signal and the workload of a benchmark run *)

\* C29: a Stop call, from the stream loop of a client that has gone or from
\* the HTTP stop handler, completes normally: it never finds the stop channel
\* of a running runner closed already, so no channel is closed twice.
C29_StopClosesOnce ==
    [][(HandleStopBenchmark \/ \E c \in Conns : StreamClientGone(c))
          => ~Stop(runners[benchmarkRunner], stopChans.closed).panic]_vars

\* the keys a worker has put into its structure
InsertedKeys(w) == {w.m[j] : j \in DOMAIN w.m}

\* C30: in a search workload every key a worker searches is a key that this
\* worker has inserted into its own structure before.
C30_ProbesInsertedKeys ==
    \A c \in Conns :
        conns[c].Operation = "search" =>
            \A k \in DOMAIN conns[c].workers :
                conns[c].workers[k].probe # NULL =>
                    conns[c].workers[k].probe \in InsertedKeys(conns[c].workers[k])

-----------------------------------------------------------------------------
(* The shape of the trees and of their snapshots *)

\* the entry of the snapshot with the id
SnapshotNode(snapshot, id) ==
    snapshot[CHOOSE i \in DOMAIN snapshot : snapshot[i].ID = id]

\* the keys below the entry id of a snapshot, left subtree first, then the
\* entry, then the right subtree, following leftId and rightId
RECURSIVE InOrder(_, _)
InOrder(snapshot, id) ==
    IF id = NULL THEN <<>>
    ELSE InOrder(snapshot, SnapshotNode(snapshot, id).LeftID)
         \o <<SnapshotNode(snapshot, id).Value>>
         \o InOrder(snapshot, SnapshotNode(snapshot, id).RightID)

\* the in-order traversal of a snapshot from its root, its first entry
InOrderOf(snapshot) ==
    IF snapshot = <<>> THEN <<>> ELSE InOrder(snapshot, snapshot[1].ID)

\* the keys ascend; strict forbids equal neighbors
Sorted(keys, strict) ==
    \A i \in 1..(Len(keys) - 1) :
        keys[i] <= keys[i + 1] /\ (strict => keys[i] # keys[i + 1])

\* C31: after any sequence of Insert and Delete the in-order traversal of
\* each tree's snapshot visits every node and is sorted, equal keys allowed
\* side by side in the red-black tree and not in the AVL tree.
C31_SearchTreeOrder ==
    /\ Len(InOrderOf(RB_getTreeSnapshot(rbTree))) = Len(RB_getTreeSnapshot(rbTree))
    /\ Sorted(InOrderOf(RB_getTreeSnapshot(rbTree)), FALSE)
    /\ Len(InOrderOf(AVL_getTreeSnapshot(avlTree))) = Len(AVL_getTreeSnapshot(avlTree))
    /\ Sorted(InOrderOf(AVL_getTreeSnapshot(avlTree)), TRUE)

\* a Delete has taken a node out of a tree of three and left two nodes in
\* order
C31_Witness ==
    /\ req.Operation = "delete" /\ result.Success
    /\ Len(result.FinalTree) = 2
    /\ result.FinalTree = Snapshot(req.Structure, rbTree, avlTree)

\* no id appears in two entries of a snapshot
DistinctIDs(snapshot) ==
    \A i, j \in DOMAIN snapshot : snapshot[i].ID = snapshot[j].ID => i = j

\* C32: in every snapshot of a tree operation, of a step or the final one,
\* the ids of the nodes are pairwise distinct.
C32_SnapshotIdsDistinct ==
    req.Structure \in {"rbtree", "avltree"} /\ req.Operation # "reset" =>
        /\ \A i \in DOMAIN result.Steps : DistinctIDs(result.Steps[i].TreeState)
        /\ DistinctIDs(result.FinalTree)

\* the keys a snapshot shows
SnapshotKeys(snapshot) == {snapshot[i].Value : i \in DOMAIN snapshot}

\* C33: in the trace of Insert(k) and Delete(k) on either tree every step,
\* the Rotate steps included, shows every key other than k that the tree
\* held before the call.
C33_StepsShowAllKeys ==
    [][req'.Structure \in {"rbtree", "avltree"} /\ req'.Operation \in {"insert", "delete"} =>
          \A i \in DOMAIN result'.Steps :
              SnapshotKeys(Snapshot(req'.Structure, rbTree, avlTree)) \ {req'.Value}
                  \subseteq SnapshotKeys(result'.Steps[i].TreeState)]_vars

\* the entries of a snapshot that list the id as their left or right child,
\* each with the side
ParentsOf(snapshot, id) ==
    {<<i, f>> \in (DOMAIN snapshot) \X {"LeftID", "RightID"} : snapshot[i][f] = id}

\* parent and child links of a snapshot agree
LinksAgree(snapshot) ==
    \A i \in DOMAIN snapshot :
        /\ i = 1 => snapshot[i].ParentID = NULL
        /\ i # 1 => Cardinality(ParentsOf(snapshot, snapshot[i].ID)) = 1
        /\ \A j \in DOMAIN snapshot :
              snapshot[i].ParentID = snapshot[j].ID
                  <=> (snapshot[j].LeftID = snapshot[i].ID
                       \/ snapshot[j].RightID = snapshot[i].ID)
        /\ snapshot[i].ParentID # NULL => snapshot[i].ParentID \in SnapshotIDs(snapshot)

\* C34: in the snapshot of the red-black tree after an Insert or a Delete
\* has returned, a node carries parentId p exactly when node p lists it as
\* leftId or rightId, the root carries no parentId and every other node is
\* the child of exactly one node.
C34_ParentChildAgree ==
    /\ LinksAgree(RB_getTreeSnapshot(rbTree))
    /\ (req.Structure = "rbtree" /\ req.Operation \in {"insert", "delete"})
          => LinksAgree(result.FinalTree)

\* a Delete of a node with two children has put the successor in its place
\* and repaired the tree with a rotation
C34_Witness ==
    /\ req.Structure = "rbtree" /\ req.Operation = "delete" /\ result.Success
    /\ "replaced by successor" \in StepDescriptions(result.Steps)
    /\ StepTypes(result.Steps) \cap Rotations # {}
    /\ Len(result.FinalTree) >= 3

\* the snapshot of the tree a request is addressed to
SnapshotOf(structure, rb, avl) ==
    IF structure = "rbtree" THEN RB_getTreeSnapshot(rb) ELSE AVL_getTreeSnapshot(avl)

\* C35: Search leaves the tree it searches unchanged, the key found or not:
\* the snapshot after the call is the snapshot before it, every step of the
\* trace and the final tree of the result carry that snapshot, and the next
\* id of the tree is the same.
C35_SearchLeavesTree ==
    [][req'.Operation = "search" =>
          /\ RB_getTreeSnapshot(rbTree') = RB_getTreeSnapshot(rbTree)
          /\ AVL_getTreeSnapshot(avlTree') = AVL_getTreeSnapshot(avlTree)
          /\ rbTree'.nextID = rbTree.nextID
          /\ avlTree'.nextID = avlTree.nextID
          /\ result'.FinalTree = SnapshotOf(req'.Structure, rbTree, avlTree)
          /\ \A i \in DOMAIN result'.Steps :
                result'.Steps[i].TreeState = SnapshotOf(req'.Structure, rbTree, avlTree)]_vars

\* a Search has found a key two levels down in a tree of three nodes
C35_Witness ==
    /\ req.Operation = "search"
    /\ result.Success
    /\ Len(result.FinalTree) = 3
    /\ Len(result.Steps) = 3
    /\ \A i \in DOMAIN result.Steps : result.Steps[i].TreeState = result.FinalTree

\* C36: Dijkstra(start, end) leaves the nodes, the coordinates and the
\* adjacency lists of the graph as they were, on success and on failure and
\* for a start or an end that is not a node, and nothing of the call stays
\* behind: the same call made again at once returns the same result, in
\* whatever order its range loop visits the nodes.
C36_DijkstraLeavesGraph ==
    [][DijkstraAnswered' =>
          /\ graph'.Nodes = graph.Nodes
          /\ graph'.NodeCoords = graph.NodeCoords
          /\ \A distances \in {G_initDistances(order, req'.Start, <<>>) :
                                    order \in RangeOrders(graph'.Nodes)} :
                G_search(graph', distances, req'.Start, req'.End).res = result']_vars

\* a search from a node that the graph does not have has failed on a graph
\* with an edge
C36_Witness ==
    /\ DijkstraAnswered
    /\ ~result.Success
    /\ req.Start \notin DOMAIN graph.Nodes
    /\ req.End \in DOMAIN graph.Nodes
    /\ GraphEdgeCount(graph) >= 1

\* C37: within one Dijkstra call on a graph without negative weights, the
\* distances of the nodes selected one after the other do not decrease, no
\* node's distance is larger in a step's snapshot than in the snapshot of the
\* step before, and a node shown visited keeps its distance in every later
\* snapshot.
C37_DistancesSettle ==
    DijkstraAnswered =>
        LET steps == result.Steps IN
        /\ \A i, j \in DOMAIN steps :
              (/\ i < j
               /\ steps[i].Type = StepSelectNode
               /\ steps[j].Type = StepSelectNode)
                  => steps[i].Description[3] <= steps[j].Description[3]
        /\ \A i \in 2..Len(steps) : \A id \in DOMAIN steps[i].GraphNodes :
              DistanceOf(steps[i].GraphNodes[id]) <= DistanceOf(steps[i - 1].GraphNodes[id])
        /\ \A i, j \in DOMAIN steps : \A id \in DOMAIN steps[i].GraphNodes :
              (i < j /\ steps[i].GraphNodes[id].Visited)
                  => /\ steps[j].GraphNodes[id].Visited
                     /\ steps[j].GraphNodes[id].Distance = steps[i].GraphNodes[id].Distance

\* three nodes were selected at three distances, and the distance of one of
\* them was lowered twice before it was selected
C37_Witness ==
    /\ DijkstraAnswered
    /\ \E i, j, k \in DOMAIN result.Steps :
          /\ i < j /\ j < k
          /\ result.Steps[i].Type = StepSelectNode
          /\ result.Steps[j].Type = StepSelectNode
          /\ result.Steps[k].Type = StepSelectNode
          /\ result.Steps[i].Description[3] < result.Steps[j].Description[3]
          /\ result.Steps[j].Description[3] < result.Steps[k].Description[3]
    /\ \E node \in DOMAIN graph.Nodes :
          /\ Cardinality(PushesOf(result.Steps, node)) = 2
          /\ Cardinality(SelectionsOf(result.Steps, node)) = 1

-----------------------------------------------------------------------------
(* The end of a benchmark run and of its stream *)

\* the run of connection c is active: RunBenchmark is between its running
\* check and its return
RunActive(c) == conns[c].pc = "wait"

\* the Runner r exists and is running
RunnerRunning(r) == IF r \in DOMAIN runners THEN runners[r].running ELSE FALSE

\* the Runner r is running and its stop channel is closed
RunnerStopped(r) ==
    IF r \in DOMAIN runners
    THEN runners[r].running /\ runners[r].stopChan \in stopChans.closed
    ELSE FALSE

\* C38: once Stop has raised the stop signal of an active run, every worker
\* of the run exits, RunBenchmark returns and running is cleared; and a
\* RunBenchmark call that finds the runner idle, after a stopped run as after
\* any other, is accepted and runs on a stop channel that was made for it and
\* is not closed.
C38_StoppedRunEnds ==
    /\ \A c \in Conns :
          (RunActive(c) /\ RunStopped(c))
              ~> (/\ RunReturned(c)
                  /\ \A k \in DOMAIN conns[c].workers : conns[c].workers[k].pc = "done")
    /\ \A r \in RunnerIds : RunnerStopped(r) ~> ~RunnerRunning(r)
    /\ [][\A c \in Conns :
            (/\ conns[c].pc = "call"
             /\ conns'[c].pc # "call"
             /\ ~runners[conns[c].runner].running)
               => /\ RunActive(c)'
                  /\ runners'[conns[c].runner].running
                  /\ runners'[conns[c].runner].stopChan # runners[conns[c].runner].stopChan
                  /\ runners'[conns[c].runner].stopChan \notin stopChans'.closed]_vars

\* the run of one connection was stopped by its client going away, before
\* its worker had processed an element, and has returned; the run of the
\* other connection is active on the same Runner, its stop channel open
C38_Witness ==
    \E c, d \in Conns :
        /\ c # d
        /\ benchmarkRunner = 0
        /\ stopChans.closed # {}
        /\ RunReturned(c)
        /\ conns[c].state = "closed" /\ conns[c].clientGone
        /\ conns[c].workers[1].i = 0
        /\ conns[d].runner = conns[c].runner
        /\ RunActive(d) /\ ~RunStopped(d)

\* a worker of the run of connection c has left its loop before the last
\* element of the dataset
EndedEarly(c) ==
    \E k \in DOMAIN conns[c].workers :
        /\ conns[c].workers[k].pc # "loop"
        /\ conns[c].workers[k].i < conns[c].DataSize

\* C39: Stop on a Runner that is not running, from the stop handler or from
\* the stream loop of a client that has gone, closes no stop channel and
\* leaves the Runner as it was; the run that starts on the Runner afterwards
\* has its stop channel open and, as long as it stays open, every worker of
\* the run goes through the whole dataset.
C39_IdleStopNoEffect ==
    /\ [][((HandleStopBenchmark \/ \E c \in Conns : StreamClientGone(c))
             /\ ~runners[benchmarkRunner].running)
            => /\ stopChans'.closed = stopChans.closed
               /\ runners'[benchmarkRunner] = runners[benchmarkRunner]]_vars
    /\ [][\A c \in Conns :
            (~RunActive(c) /\ RunActive(c)') => ~RunStopped(c)']_vars
    /\ [](\A c \in {1} : (conns[c].started /\ ~RunStopped(c)) => ~EndedEarly(c))

\* the stream loop of a client that went away called Stop before the run had
\* started: no channel is closed, and the run, started after it, has gone
\* through its three elements
C39_Witness ==
    /\ conns[1].state = "closed" /\ conns[1].clientGone /\ ~conns[1].complete
    /\ stopChans.closed = {}
    /\ RunActive(1)
    /\ conns[1].DataSize = 3
    /\ \A k \in DOMAIN conns[1].workers : conns[1].workers[k].i = 3

\* the handler of connection c is in its stream loop
Streaming(c) == conns[c].state = "open"

\* the handler of connection c has returned
HandlerReturned(c) == conns[c].state = "closed"

\* C40: every invocation of the streaming handler returns; one that returns
\* while its client has not gone away has written the completion event; and
\* once the completion event is written the handler writes nothing more.
C40_HandlerTerminates ==
    /\ \A c \in Conns : Streaming(c) ~> HandlerReturned(c)
    /\ [](\A c \in Conns :
            /\ (HandlerReturned(c) /\ ~conns[c].clientGone) => conns[c].complete
            /\ conns[c].complete => HandlerReturned(c))
    /\ [][\A c \in Conns :
            HandlerReturned(c) => /\ conns'[c].written = conns[c].written
                                  /\ conns'[c].complete = conns[c].complete]_vars

\* the part of C40 that does not speak of termination
C40_CompleteOnceAndLast ==
    /\ [](\A c \in Conns :
            /\ (HandlerReturned(c) /\ ~conns[c].clientGone) => conns[c].complete
            /\ conns[c].complete => HandlerReturned(c))
    /\ [][\A c \in Conns :
            HandlerReturned(c) => /\ conns'[c].written = conns[c].written
                                  /\ conns'[c].complete = conns[c].complete]_vars

====
